---- MODULE Spec2Model ----
(***************************************************************************)
(* Model of pico_tracker/lib/micropyGPS.py: the character-at-a-time NMEA   *)
(* parser MicropyGPS (update, new_sentence, gprmc, gpgga).                 *)
(*                                                                         *)
(* Characters are one-character strings; Ord gives their ordinals.  A      *)
(* Python string is a sequence of characters.  A Python float is an exact  *)
(* decimal <<m, e>> standing for m * 10^(-e), kept normalised (no trailing *)
(* zero digit), so that equal numbers have equal representations; a Python *)
(* int is a TLA+ integer.  True/False stored in fix_stat are 1/0, as they  *)
(* compare in Python.                                                      *)
(***************************************************************************)
EXTENDS Integers, Sequences, FiniteSets, TLC

(***************************************************************************)
(* Bounds of the input streams.                                            *)
(***************************************************************************)
\* number of sentence starts ('$' or new_sentence()) in one stream
MaxSentences == 2
\* number of characters the source keeps sending past SENTENCE_LIMIT
Overrun == 3
\* largest local offset, in hours either way, the hour arithmetic is
\* checked for
MaxOffset == 30
\* number of failed init_gsm calls, and of failed connect_server calls,
\* before the one that succeeds
MaxTries == 2
\* number of websocket clients that connect to the relay server
MaxClients == 1
\* number of broadcast_to_websockets calls
MaxBroadcasts == 2
\* number of lines a tracker sends on its TCP connection
MaxLines == 3
\* number of websockets that connect to the backend
MaxConnections == 2
\* number of POST /gps requests
MaxPosts == 2

(***************************************************************************)
(* Characters.                                                             *)
(***************************************************************************)
Digits == <<"0", "1", "2", "3", "4", "5", "6", "7", "8", "9">>
HexDigits == <<"0", "1", "2", "3", "4", "5", "6", "7", "8", "9",
               "A", "B", "C", "D", "E", "F">>
HexLower == <<"0", "1", "2", "3", "4", "5", "6", "7", "8", "9",
              "a", "b", "c", "d", "e", "f">>

\* HT (9) and DEL (127) are the two ordinals next to the accepted range.
Ord ==
  [c \in {"HT", "DEL"} |-> IF c = "HT" THEN 9 ELSE 127] @@
  ("$" :> 36 @@ "*" :> 42 @@ "," :> 44 @@ "-" :> 45 @@ "." :> 46) @@
  [c \in {Digits[i] : i \in 1..10} |->
      47 + (CHOOSE i \in 1..10 : Digits[i] = c)] @@
  ("A" :> 65 @@ "B" :> 66 @@ "C" :> 67 @@ "D" :> 68 @@ "E" :> 69 @@
   "F" :> 70 @@ "G" :> 71 @@ "M" :> 77 @@ "N" :> 78 @@ "P" :> 80 @@
   "R" :> 82 @@ "S" :> 83 @@ "V" :> 86 @@ "W" :> 87 @@ "X" :> 88 @@
   "Z" :> 90 @@ "c" :> 99 @@ "g" :> 103 @@ "m" :> 109 @@ "p" :> 112 @@
   "r" :> 114)

Chars == DOMAIN Ord
NoiseChars == {c \in Chars : Ord[c] < 10 \/ Ord[c] > 126}

\* bitwise exclusive or of two naturals (the ^ of line 345)
RECURSIVE Xor(_, _)
Xor(a, b) ==
  IF a = 0 THEN b
  ELSE IF b = 0 THEN a
  ELSE ((a + b) % 2) + 2 * Xor(a \div 2, b \div 2)

(***************************************************************************)
(* String slicing and the conversions int(), int(.,16) and float().        *)
(***************************************************************************)
Min(a, b) == IF a < b THEN a ELSE b

\* s[a:b] and s[a:] with 0-based a, b >= 0
Slice(s, a, b) == SubSeq(s, a + 1, Min(b, Len(s)))
SliceFrom(s, a) == SubSeq(s, a + 1, Len(s))

IsDigit(c) == \E i \in 1..10 : Digits[i] = c
DigitVal(c) == (CHOOSE i \in 1..10 : Digits[i] = c) - 1
IsHexDigit(c) == \E i \in 1..16 : HexDigits[i] = c \/ HexLower[i] = c
HexDigitVal(c) ==
  (CHOOSE i \in 1..16 : HexDigits[i] = c \/ HexLower[i] = c) - 1

RECURSIVE DigitsVal(_)
DigitsVal(s) ==
  IF s = <<>> THEN 0
  ELSE 10 * DigitsVal(SubSeq(s, 1, Len(s) - 1)) + DigitVal(s[Len(s)])

AllDigits(s) == \A i \in 1..Len(s) : IsDigit(s[i])

\* an optional leading '-' removed
Unsigned(s) == IF s # <<>> /\ s[1] = "-" THEN Tail(s) ELSE s
Sign(s) == IF s # <<>> /\ s[1] = "-" THEN -1 ELSE 1

\* int(s): ok is FALSE where Python raises ValueError
PyInt(s) ==
  LET u == Unsigned(s) IN
  IF u # <<>> /\ AllDigits(u)
  THEN [ok |-> TRUE, val |-> Sign(s) * DigitsVal(u)]
  ELSE [ok |-> FALSE, val |-> 0]

\* int(s, 16)
RECURSIVE HexVal(_)
HexVal(s) ==
  IF s = <<>> THEN 0
  ELSE 16 * HexVal(SubSeq(s, 1, Len(s) - 1)) + HexDigitVal(s[Len(s)])

PyIntHex(s) ==
  LET u == Unsigned(s) IN
  IF u # <<>> /\ \A i \in 1..Len(u) : IsHexDigit(u[i])
  THEN [ok |-> TRUE, val |-> Sign(s) * HexVal(u)]
  ELSE [ok |-> FALSE, val |-> 0]

\* the float m * 10^(-e), normalised
RECURSIVE Dec(_, _)
Dec(m, e) ==
  IF m = 0 THEN <<0, 0>>
  ELSE IF e > 0 /\ m % 10 = 0 THEN Dec(m \div 10, e - 1)
  ELSE <<m, e>>

DecMul(x, y) == Dec(x[1] * y[1], x[2] + y[2])

\* float(s) for decimal literals: [-]digits[.[digits]] or [-].digits
PyFloat(s) ==
  LET u == Unsigned(s)
      dots == {i \in 1..Len(u) : u[i] = "."}
      p == IF dots = {} THEN Len(u) + 1 ELSE CHOOSE i \in dots : TRUE
      ip == SubSeq(u, 1, p - 1)
      fp == SubSeq(u, p + 1, Len(u))
  IN
  IF /\ Cardinality(dots) <= 1
     /\ AllDigits(ip) /\ AllDigits(fp)
     /\ Len(ip) + Len(fp) > 0
  THEN [ok |-> TRUE,
        val |-> Dec(Sign(s) * DigitsVal(ip \o fp), Len(fp))]
  ELSE [ok |-> FALSE, val |-> <<0, 0>>]

(***************************************************************************)
(* Program constants and state.                                            *)
(***************************************************************************)
SENTENCE_LIMIT == 90

\* the hemisphere letters with one more
HemispheresWider == {<<"N">>, <<"S">>, <<"E">>, <<"W">>, <<"X">>}

HEMISPHERES == {<<"N">>, <<"S">>, <<"E">>, <<"W">>}

\* values of the constructor argument local_offset
LocalOffsets == {0, -13}

VARIABLES
  \* object status flags and the per-sentence attributes
  sentence_active, active_segment, gps_segments, crc_xor, process_crc,
  char_count,
  \* TRUE once gps_segments, crc_xor, process_crc and char_count exist:
  \* __init__ does not create them, new_sentence does
  attrs_set,
  \* sentence statistics
  crc_fails, clean_sentences,
  \* data from sentences
  local_offset, timestamp, date, latitude, longitude, speed, course,
  altitude, geoid_height, satellites_in_use, hdop, valid, fix_stat,
  \* the last call: operation, argument, return value, escaping exception,
  \* decoder dispatched and what the decoder returned
  op, new_char, ret, raised, dispatched, decoder_ret,
  \* the character source: characters sent since the last sentence start,
  \* and its position in the stream it is sending
  sent, phase, base, fidx, pending, faulted, sentences,
  \* the tracker's main loop: the report built in the current read window,
  \* the last report handed to send_data, first_data_sent and the first
  \* line of the display
  gps_data, sent_data, first_data_sent, display,
  \* what the send_data call of the last report came to ("none" when the
  \* last step was not a report that called it)
  send_result,
  \* main's position, oled_initialized, module_status["gsm"]["internet"],
  \* module_status["server"]["connected"], and the failed calls of init_gsm
  \* and of connect_server so far
  pc, oled_initialized, gsm_internet, server_connected, gsm_tries,
  server_tries,
  \* the relay server: the set of clients, whether a position is known,
  \* and each websocket_handler's position
  websocket_clients, last_known_position, handler,
  \* the first message each client's connection was given to send
  first_sent,
  \* each broadcast_to_websockets call: its position, the size of the set
  \* its iterator remembers, the set when the iteration started, the client
  \* whose send it awaits, the clients a send reached, its local set
  \* disconnected, and the exception that left it
  b_pc, si_used, b_start, b_cur, b_sent, disconnected, b_error,
  \* the data a running broadcast_to_websockets call was passed, and the
  \* data the latest call was passed
  b_data, called_with,
  \* a tracker's TCP connection to the relay server: handle_connection's
  \* position, the lines received, the lines in buffer and what was written
  tcp_pc, tcp_received, buffer, tcp_written,
  \* the FastAPI backend: the list active_connections and each
  \* websocket_endpoint's position
  active_connections, ws_endpoint,
  \* each receive_gps_data call: its position, the index of its list
  \* iterator, the set of connections when it started, its variable
  \* connection, its list disconnected, and the connections it has sent
  \* gps_data and then pico_status
  rg_pc, rg_index, rg_start, rg_connection, rg_disconnected, rg_sent

frameVars == <<sentence_active, active_segment, gps_segments, crc_xor,
               process_crc, char_count, attrs_set>>
statVars == <<crc_fails, clean_sentences>>
fixVars == <<timestamp, date, latitude, longitude, speed, course, altitude,
             geoid_height, satellites_in_use, hdop, valid, fix_stat>>
callVars == <<op, new_char, ret, raised, dispatched, decoder_ret>>
srcVars == <<sent, phase, base, fidx, pending, faulted, sentences>>
mainVars == <<gps_data, sent_data, first_data_sent, display, send_result>>
startVars == <<pc, oled_initialized, gsm_internet, server_connected,
               gsm_tries, server_tries>>
serverVars == <<websocket_clients, last_known_position, handler, b_pc,
                si_used, b_start, b_cur, b_sent, disconnected, b_error,
                first_sent, b_data, called_with>>
trackerVars == <<frameVars, statVars, fixVars, local_offset, callVars,
                 srcVars, mainVars, startVars>>
tcpVars == <<tcp_pc, tcp_received, buffer, tcp_written>>
backendVars == <<active_connections, ws_endpoint, rg_pc, rg_index, rg_start,
                 rg_connection, rg_disconnected, rg_sent>>
vars == <<trackerVars, serverVars, tcpVars, backendVars>>

\* the fix data as one value
Fix ==
  [timestamp |-> timestamp, date |-> date, latitude |-> latitude,
   longitude |-> longitude, speed |-> speed, course |-> course,
   altitude |-> altitude, geoid_height |-> geoid_height,
   satellites_in_use |-> satellites_in_use, hdop |-> hdop,
   valid |-> valid, fix_stat |-> fix_stat]

\* the fix data __init__ sets
InitFix ==
  [timestamp |-> <<0, 0, <<0, 0>>>>, date |-> <<0, 0, 0>>,
   latitude |-> <<0, <<0, 0>>, <<"N">>>>,
   longitude |-> <<0, <<0, 0>>, <<"W">>>>,
   speed |-> <<<<0, 0>>, <<0, 0>>, <<0, 0>>>>, course |-> <<0, 0>>,
   altitude |-> <<0, 0>>, geoid_height |-> <<0, 0>>,
   satellites_in_use |-> 0, hdop |-> <<0, 0>>,
   valid |-> FALSE, fix_stat |-> 0]

SetFixInit ==
  /\ timestamp = InitFix.timestamp
  /\ date = InitFix.date
  /\ latitude = InitFix.latitude
  /\ longitude = InitFix.longitude
  /\ speed = InitFix.speed
  /\ course = InitFix.course
  /\ altitude = InitFix.altitude
  /\ geoid_height = InitFix.geoid_height
  /\ satellites_in_use = InitFix.satellites_in_use
  /\ hdop = InitFix.hdop
  /\ valid = InitFix.valid
  /\ fix_stat = InitFix.fix_stat

(***************************************************************************)
(* Sentence decoders.  Each gives the fix data it leaves and what it       *)
(* returns: "True", "False", or "IndexError" when that exception leaves    *)
(* it.  segs[i + 1] is gps_segments[i].                                    *)
(***************************************************************************)
\* the remainder that keeps the sign of the dividend
LocalHoursTruncated(hh, off) ==
  IF hh + off >= 0 THEN (hh + off) % 24 ELSE -((-(hh + off)) % 24)

\* (int(utc[0:2]) + local_offset) % 24
LocalHours(hh, off) == (hh + off) % 24

\* knots, mph and km/h
Speeds(spd_knt) ==
  <<spd_knt, DecMul(spd_knt, <<1151, 3>>), DecMul(spd_knt, <<1852, 3>>)>>

\* degrees and minutes of a latitude (n = 2) or longitude (n = 3) string
Degrees(l_string, n) == PyInt(Slice(l_string, 0, n))

\* minutes that always parse
MinutesLenient(l_string, n) ==
  [ok |-> TRUE, val |-> PyFloat(SliceFrom(l_string, n)).val]

Minutes(l_string, n) == PyFloat(SliceFrom(l_string, n))

gprmc(segs, fix, off) ==
  LET has(i) == i < Len(segs)
      utc_string == segs[2]
      hh == PyInt(Slice(utc_string, 0, 2))
      mm == PyInt(Slice(utc_string, 2, 4))
      ss == PyFloat(SliceFrom(utc_string, 4))
      f1 == [fix EXCEPT !.timestamp =
               IF utc_string # <<>>
               THEN <<LocalHours(hh.val, off), mm.val, ss.val>>
               ELSE <<0, 0, <<0, 0>>>>]
      date_string == segs[10]
      day == PyInt(Slice(date_string, 0, 2))
      month == PyInt(Slice(date_string, 2, 4))
      year == PyInt(Slice(date_string, 4, 6))
      f2 == [f1 EXCEPT !.date =
               IF date_string # <<>>
               THEN <<day.val, month.val, year.val>>
               ELSE <<0, 0, 0>>]
      lat_degs == Degrees(segs[4], 2)
      lat_mins == Minutes(segs[4], 2)
      lat_hemi == segs[5]
      lon_degs == Degrees(segs[6], 3)
      lon_mins == Minutes(segs[6], 3)
      lon_hemi == segs[7]
      spd_knt == PyFloat(segs[8])
      crs == IF segs[9] # <<>> THEN PyFloat(segs[9])
             ELSE [ok |-> TRUE, val |-> <<0, 0>>]
  IN
  IF ~has(1) THEN [fix |-> fix, ret |-> "IndexError"]
  ELSE IF utc_string # <<>> /\ ~(hh.ok /\ mm.ok /\ ss.ok)
  THEN [fix |-> fix, ret |-> "False"]
  ELSE IF ~has(9) THEN [fix |-> f1, ret |-> "IndexError"]
  ELSE IF date_string # <<>> /\ ~(day.ok /\ month.ok /\ year.ok)
  THEN [fix |-> f1, ret |-> "False"]
  ELSE IF segs[3] = <<"A">>
  THEN IF ~(lat_degs.ok /\ lat_mins.ok /\ lon_degs.ok /\ lon_mins.ok)
       THEN [fix |-> f2, ret |-> "False"]
       ELSE IF lat_hemi \notin HEMISPHERES
       THEN [fix |-> f2, ret |-> "False"]
       ELSE IF lon_hemi \notin HEMISPHERES
       THEN [fix |-> f2, ret |-> "False"]
       ELSE IF ~spd_knt.ok THEN [fix |-> f2, ret |-> "False"]
       ELSE IF ~crs.ok THEN [fix |-> f2, ret |-> "False"]
       ELSE [fix |-> [f2 EXCEPT
                        !.latitude = <<lat_degs.val, lat_mins.val, lat_hemi>>,
                        !.longitude = <<lon_degs.val, lon_mins.val, lon_hemi>>,
                        !.speed = Speeds(spd_knt.val),
                        !.course = crs.val,
                        !.valid = TRUE,
                        !.fix_stat = 1],
             ret |-> "True"]
  ELSE [fix |-> [f2 EXCEPT
                   !.latitude = <<0, <<0, 0>>, <<"N">>>>,
                   !.longitude = <<0, <<0, 0>>, <<"W">>>>,
                   !.speed = <<<<0, 0>>, <<0, 0>>, <<0, 0>>>>,
                   !.course = <<0, 0>>,
                   !.valid = FALSE,
                   !.fix_stat = 0],
        ret |-> "True"]

gpgga(segs, fix, off) ==
  LET has(i) == i < Len(segs)
      utc_string == segs[2]
      hh == PyInt(Slice(utc_string, 0, 2))
      mm == PyInt(Slice(utc_string, 2, 4))
      ss == PyFloat(SliceFrom(utc_string, 4))
      time == IF utc_string # <<>>
              THEN <<LocalHours(hh.val, off), mm.val, ss.val>>
              ELSE <<0, 0, <<0, 0>>>>
      sats == PyInt(segs[8])
      fstat == PyInt(segs[7])
      hd == IF has(8) /\ PyFloat(segs[9]).ok THEN PyFloat(segs[9]).val
            ELSE <<0, 0>>
      lat_degs == Degrees(segs[3], 2)
      lat_mins == Minutes(segs[3], 2)
      lat_hemi == segs[4]
      lon_degs == Degrees(segs[5], 3)
      lon_mins == Minutes(segs[5], 3)
      lon_hemi == segs[6]
      alt == PyFloat(segs[10])
      geoid == PyFloat(segs[12])
      bothOk == alt.ok /\ geoid.ok
      f1 == [fix EXCEPT
               !.latitude = <<lat_degs.val, lat_mins.val, lat_hemi>>,
               !.longitude = <<lon_degs.val, lon_mins.val, lon_hemi>>,
               !.altitude = IF bothOk THEN alt.val ELSE <<0, 0>>,
               !.geoid_height = IF bothOk THEN geoid.val ELSE <<0, 0>>]
      final(f) == [f EXCEPT
                     !.timestamp = time,
                     !.satellites_in_use = sats.val,
                     !.hdop = hd,
                     !.fix_stat = fstat.val]
  IN
  IF ~has(1) THEN [fix |-> fix, ret |-> "False"]
  ELSE IF utc_string # <<>> /\ ~(hh.ok /\ mm.ok /\ ss.ok)
  THEN [fix |-> fix, ret |-> "False"]
  ELSE IF ~has(7) \/ ~sats.ok THEN [fix |-> fix, ret |-> "False"]
  ELSE IF ~fstat.ok THEN [fix |-> fix, ret |-> "False"]
  ELSE IF fstat.val # 0
  THEN IF ~(lat_degs.ok /\ lat_mins.ok /\ lon_degs.ok /\ lon_mins.ok)
       THEN [fix |-> fix, ret |-> "False"]
       ELSE IF lat_hemi \notin HEMISPHERES
       THEN [fix |-> fix, ret |-> "False"]
       ELSE IF lon_hemi \notin HEMISPHERES
       THEN [fix |-> fix, ret |-> "False"]
       ELSE IF ~has(9) THEN [fix |-> fix, ret |-> "IndexError"]
       ELSE IF alt.ok /\ ~has(11) THEN [fix |-> fix, ret |-> "IndexError"]
       ELSE [fix |-> final(f1), ret |-> "True"]
  ELSE [fix |-> final(fix), ret |-> "True"]

(***************************************************************************)
(* The character source.  It sends sentences built from a template: field  *)
(* i of a sentence is one of the alternatives Template[i + 1], the first   *)
(* being the well-formed one; choosing another one is a fault.  The other  *)
(* faults are: ending the sentence before its last field, a checksum that  *)
(* is wrong or not hexadecimal, and a run of one repeated character in     *)
(* place of a sentence or of the rest of one.  After a checksum that was   *)
(* not right the source may repeat the checksum or go on with a run.  It   *)
(* may start a new sentence at any point.  A stream carries at most one    *)
(* fault (faulted); until the fault, the source may send an out-of-range   *)
(* character at any point.                                                 *)
(***************************************************************************)
\* an RMC sentence: type, time, status, lat, N/S, lon, E/W, speed, course, date
RMC ==
  <<<<<<"G", "P", "R", "M", "C">>, <<"G", "N", "R", "M", "C">>, <<"g", "p", "r", "m", "c">>>>,
    <<<<"1", "2", "3", "5", "1", "9">>, <<>>, <<"1", "2", "X", "5", "1", "9">>>>,
    <<<<"A">>, <<"V">>>>,
    <<<<"4", "8", "0", "7", ".", "5">>, <<"4", "8", "X", "7">>>>,
    <<<<"N">>, <<"X">>, <<"E">>>>,
    <<<<"0", "1", "1", "3", "1", ".", "2">>, <<"0", "X", "1">>>>,
    <<<<"E">>, <<"X">>>>,
    <<<<"2", ".", "5">>, <<"X">>>>,
    <<<<"8", "4">>, <<>>, <<"X">>>>,
    <<<<"2", "3", "0", "3", "9", "4">>, <<>>, <<"2", "3", "X", "3", "9", "4">>>>>>

\* a GGA sentence: type, time, lat, N/S, lon, E/W, fix, satellites, hdop,
\* altitude, M, geoid height, M
GGA ==
  <<<<<<"G", "P", "G", "G", "A">>, <<"G", "N", "G", "G", "A">>>>,
    <<<<"0", "1", "0", "2", "0", "3">>, <<>>, <<"0", "1", "X", "2", "0", "3">>>>,
    <<<<"3", "7", "2", "3">>, <<"3", "7", "X", "3">>>>,
    <<<<"S">>, <<"X">>>>,
    <<<<"1", "2", "1", "5", "8">>, <<"1", "X", "1">>>>,
    <<<<"W">>, <<"X">>>>,
    <<<<"2">>, <<"0">>, <<"X">>>>,
    <<<<"0", "8">>, <<"X">>>>,
    <<<<"0", ".", "9">>, <<"X">>>>,
    <<<<"5", "4", ".", "5">>, <<"X">>>>,
    <<<<"M">>>>,
    <<<<"4", "6">>, <<"X">>>>,
    <<<<"M">>>>>>

\* $GPRMC,123519,A,4807.038,N,01131.000,E,022.4,084.4,230394,003.1,W
EXAMPLE ==
  <<<<<<"G", "P", "R", "M", "C">>>>,
    <<<<"1", "2", "3", "5", "1", "9">>>>,
    <<<<"A">>>>,
    <<<<"4", "8", "0", "7", ".", "0", "3", "8">>>>,
    <<<<"N">>>>,
    <<<<"0", "1", "1", "3", "1", ".", "0", "0", "0">>>>,
    <<<<"E">>>>,
    <<<<"0", "2", "2", ".", "4">>>>,
    <<<<"0", "8", "4", ".", "4">>>>,
    <<<<"2", "3", "0", "3", "9", "4">>>>,
    <<<<"0", "0", "3", ".", "1">>>>,
    <<<<"W">>>>>>

Templates == [rmc |-> RMC, gga |-> GGA, example |-> EXAMPLE]
Bases == DOMAIN Templates

\* characters a run repeats
RunChars == {"X", ",", "*"}

\* the templates whose sentences may carry faults
Faulty == {"rmc", "gga"}

\* the part of a sentence before its '*' (all of it when there is none)
Body(s) ==
  LET stars == {i \in 1..Len(s) : s[i] = "*"} IN
  IF stars = {} THEN s
  ELSE SubSeq(s, 1, (CHOOSE i \in stars : \A j \in stars : i <= j) - 1)

\* exclusive or of the ordinals of all the characters of a string
RECURSIVE XorRange(_, _, _)
XorRange(s, i, j) ==
  IF i > j THEN 0
  ELSE IF i = j THEN Ord[s[i]]
  ELSE LET h == (i + j) \div 2 IN
       Xor(XorRange(s, i, h), XorRange(s, h + 1, j))

XorAll(s) == XorRange(s, 1, Len(s))

\* two upper-case hexadecimal digits
Hex2(n) == <<HexDigits[(n \div 16) + 1], HexDigits[(n % 16) + 1]>>

(***************************************************************************)
(* MicropyGPS.new_sentence and MicropyGPS.update.                          *)
(***************************************************************************)
\* the printable-character test without its upper limit
InRangeNoUpper(c) == 10 <= Ord[c]

\* line 299: the printable-character test
InRange(c) == 10 <= Ord[c] /\ Ord[c] <= 126

\* the ceiling test one character late
OverLimitLate(n) == n > SENTENCE_LIMIT + 1

\* line 361: the sentence buffer is filling up
OverLimit(n) == n > SENTENCE_LIMIT

\* line 333: the checksum field is complete
ChecksumReady(seg) == Len(seg) = 2

\* the running checksum that goes on after the '*'
CrcNextAlways(x, c, process) == Xor(x, Ord[c])

\* lines 344-345: the running checksum after an in-sentence character
CrcNext(x, c, process) == IF process THEN Xor(x, Ord[c]) ELSE x

\* lines 322-328: the segments after a character other than '$' and '*'
Store(segs, active, c) ==
  IF c = "," THEN Append(segs, <<>>)
  ELSE [segs EXCEPT ![active + 1] = Append(@, c)]

\* lines 352-355: the decoder for a sentence type and what it does
Dispatch(segs, fix, off) ==
  IF segs[1] \in {<<"G", "P", "R", "M", "C">>, <<"G", "N", "R", "M", "C">>}
  THEN [name |-> "gprmc"] @@ gprmc(segs, fix, off)
  ELSE IF segs[1] \in {<<"G", "P", "G", "G", "A">>,
                       <<"G", "N", "G", "G", "A">>}
  THEN [name |-> "gpgga"] @@ gpgga(segs, fix, off)
  ELSE [name |-> "none", fix |-> fix, ret |-> "none"]

\* lines 309, 318 and 365: every return of update
UpdateReturn(decoded) == "None"

SetFix(f) ==
  /\ timestamp' = f.timestamp
  /\ date' = f.date
  /\ latitude' = f.latitude
  /\ longitude' = f.longitude
  /\ speed' = f.speed
  /\ course' = f.course
  /\ altitude' = f.altitude
  /\ geoid_height' = f.geoid_height
  /\ satellites_in_use' = f.satellites_in_use
  /\ hdop' = f.hdop
  /\ valid' = f.valid
  /\ fix_stat' = f.fix_stat

\* the body of new_sentence
ResetSentence ==
  /\ gps_segments' = <<<<>>>>
  /\ active_segment' = 0
  /\ crc_xor' = 0
  /\ sentence_active' = TRUE
  /\ process_crc' = TRUE
  /\ char_count' = 0
  /\ attrs_set' = TRUE

\* a call that returns with no decoder dispatched
Quiet ==
  /\ ret' = UpdateReturn("none")
  /\ raised' = "none"
  /\ dispatched' = "none"
  /\ decoder_ret' = "none"

\* new_sentence() called by the owner of the parser
new_sentence ==
  /\ op' = "new_sentence"
  /\ new_char' = "none"
  /\ ResetSentence
  /\ ret' = "None"
  /\ raised' = "none"
  /\ dispatched' = "none"
  /\ decoder_ret' = "none"
  /\ UNCHANGED <<statVars, fixVars, local_offset>>

\* a checksum comparison that counts a failure whatever its outcome
StoreCharCountsBoth(c) ==
  LET segs == Store(gps_segments, active_segment, c)
      active == IF c = "," THEN active_segment + 1 ELSE active_segment
      check == c # "," /\ ~process_crc /\ ChecksumReady(segs[active + 1])
      final_crc == PyIntHex(segs[active + 1])
      valid_sentence == check /\ final_crc.ok /\ crc_xor = final_crc.val
      crc_failed == check /\ final_crc.ok /\ crc_xor # final_crc.val
      d == Dispatch(segs, Fix, local_offset)
      escaped == valid_sentence /\ d.ret = "IndexError"
  IN
  /\ char_count' = char_count + 1
  /\ active_segment' = active
  /\ crc_xor' = CrcNext(crc_xor, c, process_crc)
  /\ crc_fails' = IF check /\ final_crc.ok THEN crc_fails + 1 ELSE crc_fails
  /\ UNCHANGED <<process_crc, attrs_set>>
  /\ IF valid_sentence
     THEN /\ clean_sentences' = clean_sentences + 1
          /\ sentence_active' = FALSE
          /\ SetFix(d.fix)
          /\ dispatched' = d.name
          /\ decoder_ret' = d.ret
          /\ gps_segments' = IF escaped THEN segs ELSE <<>>
          /\ raised' = IF escaped THEN "IndexError" ELSE "none"
          /\ ret' = IF escaped THEN "None" ELSE UpdateReturn(d.ret)
     ELSE /\ UNCHANGED <<clean_sentences, fixVars>>
          /\ gps_segments' = segs
          /\ sentence_active' = ~OverLimit(char_count + 1)
          /\ Quiet

\* update(c), lines 326-362: a character other than '$' and '*' inside an
\* active sentence
StoreChar(c) ==
  LET segs == Store(gps_segments, active_segment, c)
      active == IF c = "," THEN active_segment + 1 ELSE active_segment
      check == c # "," /\ ~process_crc /\ ChecksumReady(segs[active + 1])
      final_crc == PyIntHex(segs[active + 1])
      valid_sentence == check /\ final_crc.ok /\ crc_xor = final_crc.val
      crc_failed == check /\ final_crc.ok /\ crc_xor # final_crc.val
      d == Dispatch(segs, Fix, local_offset)
      escaped == valid_sentence /\ d.ret = "IndexError"
  IN
  /\ char_count' = char_count + 1
  /\ active_segment' = active
  /\ crc_xor' = CrcNext(crc_xor, c, process_crc)
  /\ crc_fails' = IF crc_failed THEN crc_fails + 1 ELSE crc_fails
  /\ UNCHANGED <<process_crc, attrs_set>>
  /\ IF valid_sentence
     THEN /\ clean_sentences' = clean_sentences + 1
          /\ sentence_active' = FALSE
          /\ SetFix(d.fix)
          /\ dispatched' = d.name
          /\ decoder_ret' = d.ret
          /\ gps_segments' = IF escaped THEN segs ELSE <<>>
          /\ raised' = IF escaped THEN "IndexError" ELSE "none"
          /\ ret' = IF escaped THEN "None" ELSE UpdateReturn(d.ret)
     ELSE /\ UNCHANGED <<clean_sentences, fixVars>>
          /\ gps_segments' = segs
          /\ sentence_active' = ~OverLimit(char_count + 1)
          /\ Quiet

update(c) ==
  /\ op' = "update"
  /\ new_char' = c
  /\ UNCHANGED local_offset
  /\ IF ~InRange(c)
     THEN /\ Quiet
          /\ UNCHANGED <<frameVars, statVars, fixVars>>
     ELSE IF ~attrs_set
     THEN \* line 300 reads char_count, which does not exist
          /\ raised' = "AttributeError"
          /\ ret' = "None"
          /\ dispatched' = "none"
          /\ decoder_ret' = "none"
          /\ UNCHANGED <<frameVars, statVars, fixVars>>
     ELSE IF c = "$"
     THEN /\ ResetSentence
          /\ Quiet
          /\ UNCHANGED <<statVars, fixVars>>
     ELSE IF ~sentence_active
     THEN /\ char_count' = char_count + 1
          /\ Quiet
          /\ UNCHANGED <<sentence_active, active_segment, gps_segments,
                         crc_xor, process_crc, attrs_set, statVars, fixVars>>
     ELSE IF c = "*"
     THEN /\ char_count' = char_count + 1
          /\ process_crc' = FALSE
          /\ active_segment' = active_segment + 1
          /\ gps_segments' = Append(gps_segments, <<>>)
          /\ Quiet
          /\ UNCHANGED <<sentence_active, crc_xor, attrs_set, statVars,
                         fixVars>>
     ELSE StoreChar(c)

(***************************************************************************)
(* The character source's moves.                                           *)
(***************************************************************************)
\* the checksum field the source sends for a body
CheckField(kind, body) ==
  CASE kind = "right" -> Hex2(XorAll(body))
    [] kind = "wrong" -> Hex2(Xor(XorAll(body), 1))
    [] kind = "nonhex" -> <<"Z", "Z">>

\* the source starts a sentence: a template sentence or a run
SrcStart ==
  /\ sentences < MaxSentences
  /\ sentences' = sentences + 1
  /\ sent' = <<>>
  /\ \/ \E b \in Bases : \E k \in 1..Len(Templates[b][1]) :
          /\ k # 1 => ~faulted
          /\ faulted' = (faulted \/ k # 1)
          /\ base' = b
          /\ phase' = "field"
          /\ fidx' = 0
          /\ pending' = Templates[b][1][k]
     \/ \E rc \in RunChars :
          /\ ~faulted
          /\ faulted' = TRUE
          /\ base' = "rmc"
          /\ phase' = "run"
          /\ fidx' = 0
          /\ pending' = <<rc>>

\* the source sends the in-range character c, which is not '$'
SrcSend(c) ==
  LET T == Templates[base] IN
  /\ sent' = Append(sent, c)
  /\ UNCHANGED <<base, sentences>>
  /\ \/ \* the next character of the field being sent
        /\ phase \in {"field", "check", "badcheck", "trailer"}
        /\ pending # <<>>
        /\ c = Head(pending)
        /\ pending' = Tail(pending)
        /\ UNCHANGED <<phase, fidx, faulted>>
     \/ \* a comma and the choice of the next field
        /\ phase = "field" /\ pending = <<>> /\ fidx + 1 < Len(T)
        /\ c = ","
        /\ \E k \in 1..Len(T[fidx + 2]) :
             /\ k # 1 => ~faulted
             /\ faulted' = (faulted \/ k # 1)
             /\ pending' = T[fidx + 2][k]
        /\ fidx' = fidx + 1
        /\ UNCHANGED phase
     \/ \* the '*' and the choice of the checksum field
        /\ phase = "field" /\ pending = <<>>
        /\ c = "*"
        /\ \E kind \in {"right", "wrong", "nonhex"} :
             LET early == fidx + 1 < Len(T)
                 fault == early \/ kind # "right"
             IN
             /\ ~(early /\ kind # "right")
             /\ fault => base \in Faulty /\ ~faulted
             /\ faulted' = (faulted \/ fault)
             /\ pending' = CheckField(kind, sent)
             /\ phase' = IF kind = "right" THEN "check" ELSE "badcheck"
        /\ UNCHANGED fidx
     \/ \* a second checksum field after the first
        /\ phase = "badcheck" /\ pending = <<>>
        /\ c = ","
        /\ pending' = Hex2(XorAll(Body(sent)))
        /\ phase' = "trailer"
        /\ UNCHANGED <<fidx, faulted>>
     \/ \* a run starts: before the first sentence, after a checksum
        \* that was not right, or as a fault at the end of a field
        /\ c \in RunChars
        /\ Len(sent) < SENTENCE_LIMIT + Overrun
        /\ \/ /\ phase = "idle"
              /\ UNCHANGED faulted
           \/ /\ phase \in {"badcheck", "trailer"} /\ pending = <<>>
              /\ c # "*"
              /\ UNCHANGED faulted
           \/ /\ phase = "field" /\ pending = <<>>
              /\ base \in Faulty
              /\ c = "X"
              /\ ~faulted
              /\ faulted' = TRUE
        /\ phase' = "run"
        /\ pending' = <<c>>
        /\ UNCHANGED fidx
     \/ \* a run goes on
        /\ phase = "run"
        /\ c = pending[1]
        /\ Len(sent) < SENTENCE_LIMIT + Overrun
        /\ UNCHANGED <<phase, fidx, pending, faulted>>

(***************************************************************************)
(* The main loop of the tracker around update.                             *)
(***************************************************************************)
\* gps_data = None
NoData == [type |-> "none"]

RECURSIVE Pow10(_)
Pow10(e) == IF e = 0 THEN 1 ELSE 10 * Pow10(e - 1)

RECURSIVE Gcd(_, _)
Gcd(a, b) == IF b = 0 THEN a ELSE Gcd(b, a % b)

\* l[0] + l[1] / 60, negated for the hemisphere neg, as a fraction
\* <<numerator, denominator>> in lowest terms
DecimalDegrees(l, neg) ==
  LET num == l[1] * 60 * Pow10(l[2][2]) + l[2][1]
      den == 60 * Pow10(l[2][2])
      g == Gcd(IF num < 0 THEN -num ELSE num, den)
      sgn == IF l[3] = neg THEN -1 ELSE 1
  IN <<sgn * (num \div g), den \div g>>

\* int(x) of a float that is not negative
IntPart(x) == x[1] \div Pow10(x[2])

\* lines 398-416: the position report built from the parser's fields
PositionReport(lat, lon, ts) ==
  [type |-> "gps",
   latitude |-> DecimalDegrees(lat, <<"S">>),
   longitude |-> DecimalDegrees(lon, <<"W">>),
   timestamp |-> <<ts[1], ts[2], IntPart(ts[3])>>]

\* lines 386-418: what main does with the outcome of an update call; an
\* exception the call raised is caught and printed
Observe ==
  /\ gps_data' =
       IF raised' = "none" /\ ret' # "None" /\ fix_stat' # 0
       THEN PositionReport(latitude', longitude', timestamp')
       ELSE gps_data
  /\ send_result' = "none"
  /\ UNCHANGED <<sent_data, first_data_sent, display, startVars, serverVars,
                 tcpVars, backendVars>>

\* what the modem does with AT+CIPSEND and the data: no '>' prompt, no
\* 'SEND OK' after the data, or 'SEND OK'
ModemAnswers == {"no prompt", "no SEND OK", "SEND OK"}

\* what a send_data call comes to; it returns True for "SEND OK" only, and
\* issues AT+CIPSEND unless it comes to "not connected"
send_data(connected, answer) ==
  IF ~connected THEN "not connected" ELSE answer

\* lines 420-458 and 374: the end of a read window; send_data succeeds or
\* not as the modem answers
MainReport ==
  /\ pc = "loop"
  /\ IF gps_data # NoData
     THEN \E answer \in ModemAnswers :
            LET r == send_data(server_connected, answer) IN
            /\ sent_data' = gps_data
            /\ send_result' = r
            /\ IF ~first_data_sent
               THEN /\ first_data_sent' = (r = "SEND OK")
                    /\ display' = IF r = "SEND OK" THEN "System Ready"
                                  ELSE "First Fix OK"
               ELSE /\ display' = "GPS:Fix OK"
                    /\ UNCHANGED first_data_sent
     ELSE /\ display' = "GPS:Initialized"
          /\ send_result' = "none"
          /\ UNCHANGED <<sent_data, first_data_sent>>
  /\ gps_data' = NoData
  /\ UNCHANGED <<frameVars, statVars, fixVars, local_offset, callVars,
                 srcVars, startVars, serverVars, tcpVars, backendVars>>

\* lines 351-356: main starts, and returns at once without a display
Start ==
  /\ pc = "main"
  /\ IF oled_initialized
     THEN pc' = "init_gsm" /\ display' = "Bus Tracker"
     ELSE pc' = "returned" /\ UNCHANGED display
  /\ UNCHANGED <<frameVars, statVars, fixVars, local_offset, callVars,
                 srcVars, gps_data, sent_data, first_data_sent, send_result,
                 oled_initialized, gsm_internet, server_connected,
                 gsm_tries, server_tries, serverVars, tcpVars, backendVars>>

\* where main goes after init_gsm returned ok
AfterInitGsm(ok) == IF ok THEN "connect_server" ELSE "init_gsm"

\* lines 359-361 with init_gsm: one call of init_gsm, which the modem lets
\* succeed or not
InitGsm ==
  /\ pc = "init_gsm"
  /\ \E ok \in BOOLEAN :
       /\ ~ok => gsm_tries < MaxTries
       /\ gsm_tries' = IF ok THEN gsm_tries ELSE gsm_tries + 1
       /\ gsm_internet' = ok
       /\ display' = IF ok THEN "GSM Ready" ELSE "GSM Error"
       /\ pc' = AfterInitGsm(ok)
  /\ UNCHANGED <<frameVars, statVars, fixVars, local_offset, callVars,
                 srcVars, gps_data, sent_data, first_data_sent, send_result,
                 oled_initialized, server_connected, server_tries,
                 serverVars, tcpVars, backendVars>>

\* a connect loop that is left after one call whatever it returned
AfterConnectServerOnce(ok) == "loop"

\* where main goes after connect_server returned ok
AfterConnectServer(ok) == IF ok THEN "loop" ELSE "connect_server"

\* lines 364-368 with connect_server: one call of connect_server, which the
\* network lets succeed or not
ConnectServer ==
  /\ pc = "connect_server"
  /\ ~server_connected
  /\ \E ok \in BOOLEAN :
       /\ ~ok => server_tries < MaxTries
       /\ server_tries' = IF ok THEN server_tries ELSE server_tries + 1
       /\ server_connected' = ok
       /\ display' = IF ok THEN "Server" ELSE "Server Retry"
       /\ pc' = AfterConnectServer(ok)
  /\ first_data_sent' = FALSE
  /\ UNCHANGED <<frameVars, statVars, fixVars, local_offset, callVars,
                 srcVars, gps_data, sent_data, send_result,
                 oled_initialized, gsm_internet, gsm_tries, serverVars,
                 tcpVars, backendVars>>

\* the reports a read window can build
WindowReports ==
  {PositionReport(<<48, <<7038, 3>>, <<"N">>>>, <<11, <<31, 0>>, <<"E">>>>,
                  <<12, 35, <<19, 0>>>>),
   PositionReport(<<37, <<23, 0>>, <<"S">>>>, <<121, <<58, 0>>, <<"W">>>>,
                  <<1, 2, <<3, 0>>>>)}

\* lines 378-418 for an update call that returned a sentence type while the
\* parser has a fix: the window builds a report
Window ==
  /\ pc = "loop"
  /\ \E d \in WindowReports : gps_data' = d
  /\ send_result' = "none"
  /\ UNCHANGED <<frameVars, statVars, fixVars, local_offset, callVars,
                 srcVars, sent_data, first_data_sent, display, startVars,
                 serverVars, tcpVars, backendVars>>

(***************************************************************************)
(* The FastAPI backend: websocket_endpoint and receive_gps_data, each a    *)
(* coroutine that runs from one await to the next without interruption.   *)
(***************************************************************************)
Connections == 1..MaxConnections
Posts == 1..MaxPosts

\* backend/main.py line 20: no connection yet
BackendInit ==
  /\ active_connections = <<>>
  /\ ws_endpoint = [c \in Connections |-> "idle"]
  /\ rg_pc = [p \in Posts |-> "idle"]
  /\ rg_index = [p \in Posts |-> 0]
  /\ rg_start = [p \in Posts |-> {}]
  /\ rg_connection = [p \in Posts |-> 0]
  /\ rg_disconnected = [p \in Posts |-> {}]
  /\ rg_sent = [p \in Posts |-> {}]

\* the elements of a list
Elements(list) == {list[i] : i \in 1..Len(list)}

\* list.remove(c) for a c that is in the list once
Remove(list, c) == SelectSeq(list, LAMBDA x : x # c)

\* lines 40-50: a websocket is accepted and appended, and its endpoint goes
\* on to send the initial status and to wait for text
EndpointAppend ==
  \E c \in Connections :
    /\ ws_endpoint[c] = "idle"
    \* connections are numbered in the order they are accepted
    /\ \A d \in 1..(c - 1) : ws_endpoint[d] # "idle"
    /\ active_connections' = Append(active_connections, c)
    /\ ws_endpoint' = [ws_endpoint EXCEPT ![c] = "open"]
    /\ UNCHANGED <<rg_pc, rg_index, rg_start, rg_connection,
                   rg_disconnected, rg_sent, trackerVars, serverVars,
                   tcpVars>>

\* lines 51-55: an await of the endpoint raises.  WebSocketDisconnect is
\* answered with list.remove, which raises ValueError for a websocket that
\* is not in the list; any other exception with a remove that looks first.
EndpointRemove ==
  \E c \in Connections : \E exception \in {"WebSocketDisconnect", "other"} :
    /\ ws_endpoint[c] = "open"
    /\ IF c \in Elements(active_connections)
       THEN /\ active_connections' = Remove(active_connections, c)
            /\ ws_endpoint' = [ws_endpoint EXCEPT ![c] = "closed"]
       ELSE /\ ws_endpoint' =
                 [ws_endpoint EXCEPT
                    ![c] = IF exception = "WebSocketDisconnect"
                           THEN "ValueError" ELSE "closed"]
            /\ UNCHANGED active_connections
    /\ UNCHANGED <<rg_pc, rg_index, rg_start, rg_connection,
                   rg_disconnected, rg_sent, trackerVars, serverVars,
                   tcpVars>>

\* receive_gps_data p returns: its locals are no more
PostReturns(p) ==
  /\ rg_pc' = [rg_pc EXCEPT ![p] = "done"]
  /\ rg_index' = [rg_index EXCEPT ![p] = 0]
  /\ rg_start' = [rg_start EXCEPT ![p] = {}]
  /\ rg_connection' = [rg_connection EXCEPT ![p] = 0]
  /\ rg_disconnected' = [rg_disconnected EXCEPT ![p] = {}]
  /\ rg_sent' = [rg_sent EXCEPT ![p] = {}]

\* line 64: the for statement asks the list iterator for the next element,
\* the one at its index in the list as it is now; at the end of the list the
\* clean-up of lines 84-86 follows and the call returns
NextConnection(p, index, disc, snt) ==
  IF index < Len(active_connections)
  THEN /\ rg_index' = [rg_index EXCEPT ![p] = index + 1]
       /\ rg_connection' =
            [rg_connection EXCEPT ![p] = active_connections[index + 1]]
       /\ rg_pc' = [rg_pc EXCEPT ![p] = "gps_data"]
       /\ rg_disconnected' = [rg_disconnected EXCEPT ![p] = disc]
       /\ rg_sent' = [rg_sent EXCEPT ![p] = snt]
       /\ UNCHANGED <<active_connections, rg_start>>
  ELSE /\ active_connections' =
            SelectSeq(active_connections, LAMBDA x : x \notin disc)
       /\ PostReturns(p)

\* lines 57-66: a POST /gps starts its broadcast, up to its first await
PostStart ==
  \E p \in Posts :
    /\ rg_pc[p] = "idle"
    \* calls are numbered in the order they start
    /\ \A q \in 1..(p - 1) : rg_pc[q] # "idle"
    /\ IF active_connections = <<>>
       THEN /\ rg_pc' = [rg_pc EXCEPT ![p] = "done"]
            /\ UNCHANGED <<rg_index, rg_start, rg_connection>>
       ELSE /\ rg_pc' = [rg_pc EXCEPT ![p] = "gps_data"]
            /\ rg_index' = [rg_index EXCEPT ![p] = 1]
            /\ rg_start' = [rg_start EXCEPT
                              ![p] = Elements(active_connections)]
            /\ rg_connection' =
                 [rg_connection EXCEPT ![p] = active_connections[1]]
    /\ UNCHANGED <<active_connections, ws_endpoint, rg_disconnected,
                   rg_sent, trackerVars, serverVars, tcpVars>>

\* lines 65-80: the send of gps_data returns, and the send of pico_status is
\* awaited, or raises
PostGpsSent ==
  \E p \in Posts : \E ok \in BOOLEAN :
    /\ rg_pc[p] = "gps_data"
    /\ IF ok
       THEN /\ rg_pc' = [rg_pc EXCEPT ![p] = "pico_status"]
            /\ UNCHANGED <<active_connections, rg_index, rg_start,
                           rg_connection, rg_disconnected, rg_sent>>
       ELSE NextConnection(p, rg_index[p],
                           rg_disconnected[p] \cup {rg_connection[p]},
                           rg_sent[p])
    /\ UNCHANGED <<ws_endpoint, trackerVars, serverVars, tcpVars>>

\* lines 76-88: the send of pico_status returns or raises, and the call
\* runs on to its next await or to its end
PostStatusSent ==
  \E p \in Posts : \E ok \in BOOLEAN :
    /\ rg_pc[p] = "pico_status"
    /\ IF ok
       THEN NextConnection(p, rg_index[p], rg_disconnected[p],
                           rg_sent[p] \cup {rg_connection[p]})
       ELSE NextConnection(p, rg_index[p],
                           rg_disconnected[p] \cup {rg_connection[p]},
                           rg_sent[p])
    /\ UNCHANGED <<ws_endpoint, trackerVars, serverVars, tcpVars>>

(***************************************************************************)
(* The relay server: websocket_handler and broadcast_to_websockets, each   *)
(* a coroutine that runs from one await to the next without interruption.  *)
(***************************************************************************)
Clients == 1..MaxClients
Broadcasts == 1..MaxBroadcasts

\* last_known_position = None
None == [type |-> "None"]

\* nothing was sent on a connection yet
NoMessage == [type |-> "nothing"]

\* the dicts passed to broadcast_to_websockets: two position reports and a
\* message of another type
Messages ==
  {[type |-> "gps", latitude |-> 48], [type |-> "gps", latitude |-> 37],
   [type |-> "status"]}

\* a position report that any dict counts as
IsGpsAny(data) == TRUE

\* line 174: isinstance(data, dict) and data.get('type') == 'gps'
IsGps(data) == data.type = "gps"

\* lines 132 and 179: json.dumps(data), the text sent
Dumps(data) == [json |-> data]

\* a connection is given message to send: its first message, or a later one
Send(firsts, c, message) ==
  IF firsts[c] = NoMessage THEN [firsts EXCEPT ![c] = message] ELSE firsts

\* lines 25-26: the module's state before any connection
ServerInit ==
  /\ websocket_clients = {}
  /\ last_known_position = None
  /\ first_sent = [c \in Clients |-> NoMessage]
  /\ b_data = [b \in Broadcasts |-> None]
  /\ called_with = None
  /\ tcp_pc = "listening"
  /\ tcp_received = <<>>
  /\ buffer = <<>>
  /\ tcp_written = <<>>
  /\ handler = [c \in Clients |-> "idle"]
  /\ b_pc = [b \in Broadcasts |-> "idle"]
  /\ si_used = [b \in Broadcasts |-> 0]
  /\ b_start = [b \in Broadcasts |-> {}]
  /\ b_cur = [b \in Broadcasts |-> 0]
  /\ b_sent = [b \in Broadcasts |-> {}]
  /\ disconnected = [b \in Broadcasts |-> {}]
  /\ b_error = [b \in Broadcasts |-> "none"]

\* lines 121-142: a client connects; its handler adds it to the set and goes
\* on to wait for messages (a failure of the initial send is logged only)
HandlerAdd ==
  \E c \in Clients :
    /\ handler[c] = "idle"
    \* clients are numbered in the order they connect
    /\ \A d \in 1..(c - 1) : handler[d] # "idle"
    /\ websocket_clients' = websocket_clients \cup {c}
    /\ handler' = [handler EXCEPT ![c] = "running"]
    /\ first_sent' = IF last_known_position # None
                     THEN Send(first_sent, c, Dumps(last_known_position))
                     ELSE first_sent
    /\ UNCHANGED <<last_known_position, b_pc, si_used, b_start, b_cur,
                   b_sent, disconnected, b_error, b_data, called_with,
                   trackerVars, tcpVars, backendVars>>

\* lines 158-168: a handler's loop ends and its finally clause removes the
\* client; set.remove raises KeyError for a client that is not in the set
HandlerCleanup ==
  \E c \in Clients :
    /\ handler[c] = "running"
    /\ IF c \in websocket_clients
       THEN /\ websocket_clients' = websocket_clients \ {c}
            /\ handler' = [handler EXCEPT ![c] = "done"]
       ELSE /\ handler' = [handler EXCEPT ![c] = "KeyError"]
            /\ UNCHANGED websocket_clients
    /\ UNCHANGED <<last_known_position, b_pc, si_used, b_start, b_cur,
                   b_sent, disconnected, b_error, first_sent, b_data,
                   called_with, trackerVars, tcpVars, backendVars>>

\* broadcast b returns or raises: its locals are no more
LocalsGone(b) ==
  /\ si_used' = [si_used EXCEPT ![b] = 0]
  /\ b_start' = [b_start EXCEPT ![b] = {}]
  /\ b_cur' = [b_cur EXCEPT ![b] = 0]
  /\ b_sent' = [b_sent EXCEPT ![b] = {}]
  /\ disconnected' = [disconnected EXCEPT ![b] = {}]
  /\ b_data' = [b_data EXCEPT ![b] = None]

\* lines 190-192: the removal loop over the local set disc, in the arbitrary
\* order of a set; set.remove raises KeyError at the first client that is
\* not in websocket_clients, after the ones before it were removed
RemoveDisconnected(b, disc) ==
  IF disc \subseteq websocket_clients
  THEN /\ websocket_clients' = websocket_clients \ disc
       /\ b_pc' = [b_pc EXCEPT ![b] = "done"]
       /\ LocalsGone(b)
       /\ UNCHANGED <<b_error, first_sent>>
  ELSE \E removed \in SUBSET (disc \cap websocket_clients) :
         /\ websocket_clients' = websocket_clients \ removed
         /\ b_pc' = [b_pc EXCEPT ![b] = "raised"]
         /\ b_error' = [b_error EXCEPT ![b] = "KeyError"]
         /\ LocalsGone(b)
         /\ UNCHANGED first_sent

\* line 183: the for statement asks the set iterator for the next client.
\* The iterator raises RuntimeError when the set's size is not the size it
\* remembers; otherwise it yields the clients it has not passed: every one
\* that was in the set when the iteration started, and a client added since
\* or not as its hash places it.  The call of send at line 185 follows.
NextClient(b, snt, disc) ==
  IF Cardinality(websocket_clients) # si_used[b]
  THEN /\ b_pc' = [b_pc EXCEPT ![b] = "raised"]
       /\ b_error' = [b_error EXCEPT ![b] = "RuntimeError"]
       /\ LocalsGone(b)
       /\ UNCHANGED <<websocket_clients, first_sent>>
  ELSE LET unseen == websocket_clients \ (snt \cup disc) IN
       \/ \E c \in unseen :
            /\ b_cur' = [b_cur EXCEPT ![b] = c]
            /\ b_pc' = [b_pc EXCEPT ![b] = "sending"]
            /\ b_sent' = [b_sent EXCEPT ![b] = snt]
            /\ disconnected' = [disconnected EXCEPT ![b] = disc]
            /\ first_sent' = Send(first_sent, c, Dumps(b_data[b]))
            /\ UNCHANGED <<websocket_clients, b_error, si_used, b_start,
                           b_data>>
       \/ /\ unseen \cap b_start[b] = {}
          /\ RemoveDisconnected(b, disc)

\* lines 170-185: a broadcast starts, up to its first await
BroadcastStart ==
  \E b \in Broadcasts : \E data \in Messages :
    /\ b_pc[b] = "idle"
    \* calls are numbered in the order they start
    /\ \A a \in 1..(b - 1) : b_pc[a] # "idle"
    /\ called_with' = data
    /\ last_known_position' = IF IsGps(data) THEN data
                              ELSE last_known_position
    /\ IF websocket_clients = {}
       THEN /\ b_pc' = [b_pc EXCEPT ![b] = "done"]
            /\ UNCHANGED <<websocket_clients, si_used, b_start, b_cur,
                           b_error, first_sent, b_data>>
       ELSE /\ b_data' = [b_data EXCEPT ![b] = data]
            /\ si_used' = [si_used EXCEPT
                             ![b] = Cardinality(websocket_clients)]
            /\ b_start' = [b_start EXCEPT ![b] = websocket_clients]
            /\ \E c \in websocket_clients :
                 /\ b_cur' = [b_cur EXCEPT ![b] = c]
                 /\ first_sent' = Send(first_sent, c, Dumps(data))
            /\ b_pc' = [b_pc EXCEPT ![b] = "sending"]
            /\ UNCHANGED <<websocket_clients, b_error>>
    /\ UNCHANGED <<handler, b_sent, disconnected, trackerVars,
                   tcpVars, backendVars>>

\* lines 184-192: the awaited send returns or raises, and the broadcast runs
\* on to its next await or to its end
BroadcastResume ==
  \E b \in Broadcasts : \E ok \in BOOLEAN :
    LET snt == IF ok THEN b_sent[b] \cup {b_cur[b]} ELSE b_sent[b]
        disc == IF ok THEN disconnected[b]
                ELSE disconnected[b] \cup {b_cur[b]}
    IN
    /\ b_pc[b] = "sending"
    /\ NextClient(b, snt, disc)
    /\ UNCHANGED <<last_known_position, handler, called_with, trackerVars,
                   tcpVars, backendVars>>

(***************************************************************************)
(* handle_connection for a tracker's TCP connection.  A line is what it    *)
(* holds: a JSON object (a position report or another), another JSON value *)
(* (array, number, string), text that is not JSON, or only blanks.         *)
(***************************************************************************)
Objects == {"gps", "object"}
NonObjects == {"array", "number", "string"}
LineKinds == Objects \cup NonObjects \cup {"invalid", "blank"}

\* lines 256-257: json.loads gave a dict, which message['server_time'] = ...
\* needs; any other value raises TypeError there
IsObject(line) == line \in Objects

\* line 256: json.loads(line), for the dict passed on to the broadcast
Loads(line) ==
  IF line = "gps" THEN [type |-> "gps", latitude |-> 48]
  ELSE [type |-> "status"]

\* the chunks reader.read returns: one or two complete lines
Chunks == {<<k>> : k \in LineKinds} \cup (LineKinds \X LineKinds)

\* lines 249-270: the lines of buf are taken one by one until buf is empty,
\* a line is not JSON (the reply is the error and the rest stays in the
\* buffer) or an exception other than JSONDecodeError leaves the loop of
\* line 244.  No client is connected, so the broadcast is lines 174-177.
RECURSIVE Lines(_, _, _)
Lines(buf, written, position) ==
  IF buf = <<>>
  THEN [buffer |-> buf, written |-> written, position |-> position,
        raised |-> "none"]
  ELSE LET line == Head(buf) IN
       IF line = "blank" THEN Lines(Tail(buf), written, position)
       ELSE IF line = "invalid"
       THEN [buffer |-> Tail(buf),
             written |-> Append(written, "ERROR: Invalid JSON"),
             position |-> position, raised |-> "none"]
       ELSE IF ~IsObject(line)
       THEN [buffer |-> Tail(buf), written |-> written,
             position |-> position, raised |-> "TypeError"]
       ELSE Lines(Tail(buf), Append(written, "OK"),
                  IF IsGps(Loads(line)) THEN Loads(line) ELSE position)

\* lines 196-243: a tracker connects and sends its first line, which line
\* 198 reads to tell the kind of connection; the welcome is written
TcpAccept ==
  \E line \in LineKinds \ {"blank"} :
    /\ tcp_pc = "listening"
    /\ tcp_received' = <<line>>
    /\ tcp_written' = <<"welcome">>
    /\ buffer' = <<>>
    /\ tcp_pc' = "open"
    /\ UNCHANGED <<trackerVars, serverVars, backendVars>>

\* lines 244-270: reader.read returns a chunk and its lines are handled
TcpRead ==
  \E chunk \in Chunks :
    LET r == Lines(buffer \o chunk, tcp_written, last_known_position) IN
    /\ tcp_pc = "open"
    /\ websocket_clients = {}
    /\ Len(tcp_received) + Len(chunk) <= MaxLines
    /\ tcp_received' = tcp_received \o chunk
    /\ buffer' = r.buffer
    /\ tcp_written' = r.written
    /\ last_known_position' = r.position
    /\ tcp_pc' = IF r.raised = "none" THEN "open" ELSE "closed"
    /\ UNCHANGED <<trackerVars, websocket_clients, handler, first_sent,
                   b_pc, si_used, b_start, b_cur, b_sent, disconnected,
                   b_error, b_data, called_with, backendVars>>

\* lines 245-247 and 275-278: the tracker closes the connection
TcpEof ==
  /\ tcp_pc = "open"
  /\ tcp_pc' = "eof"
  /\ UNCHANGED <<trackerVars, serverVars, tcp_received, buffer,
                 tcp_written, backendVars>>

(***************************************************************************)
(* The parser fed by the source.                                           *)
(***************************************************************************)
ParserInit ==
  /\ sentence_active = FALSE
  /\ active_segment = 0
  /\ attrs_set = FALSE
  \* gps_segments, crc_xor, process_crc and char_count do not exist yet;
  \* these values are never read while attrs_set is FALSE
  /\ gps_segments = <<>>
  /\ crc_xor = 0
  /\ process_crc = FALSE
  /\ char_count = 0
  /\ crc_fails = 0
  /\ clean_sentences = 0
  /\ local_offset \in LocalOffsets
  /\ SetFixInit
  /\ op = "init" /\ new_char = "none" /\ ret = "None" /\ raised = "none"
  /\ dispatched = "none" /\ decoder_ret = "none"

\* the source before its first character
SrcInit ==
  /\ sent = <<>> /\ phase = "idle" /\ base = "rmc" /\ fidx = 0
  /\ pending = <<>> /\ sentences = 0

\* main() at the top of its loop, the server connected
MainInit ==
  /\ gps_data = NoData
  /\ sent_data = NoData
  /\ first_data_sent = FALSE
  /\ display = "Server"
  /\ send_result = "none"
  /\ pc = "loop"
  /\ oled_initialized = TRUE
  /\ gsm_internet = TRUE
  /\ server_connected = TRUE
  /\ gsm_tries = 0
  /\ server_tries = 0

Init ==
  /\ ParserInit /\ SrcInit /\ faulted = FALSE /\ MainInit /\ ServerInit
  /\ BackendInit

\* update with a character outside 10..126
Noise ==
  \E c \in NoiseChars :
    ~faulted /\ update(c) /\ UNCHANGED srcVars /\ Observe

\* update with a character of a sentence
Feed ==
  \E c \in (Chars \ NoiseChars) \ {"$"} : SrcSend(c) /\ update(c) /\ Observe

\* update('$')
Resync == update("$") /\ SrcStart /\ Observe

\* new_sentence() called by the owner of a parser that never saw it, before
\* the characters of a sentence
Restart ==
  /\ ~attrs_set /\ new_sentence /\ SrcStart
  /\ UNCHANGED <<mainVars, startVars, serverVars, tcpVars, backendVars>>

Next == Noise \/ Feed \/ Resync \/ Restart

Spec == Init /\ [][Next]_vars

(***************************************************************************)
(* The tracker: main() owns the parser, which it constructs and feeds      *)
(* through update only, and reports at the end of each read window.  The   *)
(* stream carries sentences without faults.                                *)
(***************************************************************************)
TrackerInit ==
  /\ ParserInit /\ SrcInit /\ faulted = TRUE /\ MainInit /\ ServerInit
  /\ BackendInit

TrackerNext == Feed \/ Resync \/ MainReport

TrackerSpec == TrackerInit /\ [][TrackerNext]_vars

(***************************************************************************)
(* main() from its entry, with the outcome of each read window taken as an *)
(* input: a window builds a report or none.  The loop never ends, so a     *)
(* step of main is always taken in the end.                                *)
(***************************************************************************)
MainEntry ==
  /\ ParserInit /\ SrcInit /\ faulted = TRUE
  /\ gps_data = NoData
  /\ sent_data = NoData
  /\ first_data_sent = FALSE
  /\ display = ""
  /\ send_result = "none"
  /\ pc = "main"
  /\ oled_initialized \in BOOLEAN
  /\ gsm_internet = FALSE
  /\ server_connected = FALSE
  /\ gsm_tries = 0
  /\ server_tries = 0
  /\ ServerInit
  /\ BackendInit

MainNext == Start \/ InitGsm \/ ConnectServer \/ Window \/ MainReport

MainSpec == MainEntry /\ [][MainNext]_vars /\ WF_vars(MainNext)

(***************************************************************************)
(* The relay server on its own, the tracker at rest.                       *)
(***************************************************************************)
ServerNext == HandlerAdd \/ HandlerCleanup \/ BroadcastStart \/ BroadcastResume

RelayInit ==
  /\ ParserInit /\ SrcInit /\ faulted = TRUE /\ MainInit /\ ServerInit
  /\ BackendInit

ServerSpec == RelayInit /\ [][ServerNext]_vars

(***************************************************************************)
(* The relay server with one tracker connection and no websocket client.   *)
(***************************************************************************)
TcpNext == TcpAccept \/ TcpRead \/ TcpEof

TcpSpec == RelayInit /\ [][TcpNext]_vars

(***************************************************************************)
(* The backend on its own.                                                 *)
(***************************************************************************)
BackendNext ==
  EndpointAppend \/ EndpointRemove \/ PostStart \/ PostGpsSent
    \/ PostStatusSent

BackendSpec == RelayInit /\ [][BackendNext]_vars

(***************************************************************************)
(* What the source sent, read independently of the parser.                 *)
(***************************************************************************)
NoStar(s) == \A i \in 1..Len(s) : s[i] # "*"

\* field n (from 0) of a comma-separated string
Commas(s) == {i \in 1..Len(s) : s[i] = ","}
CommaPos(s, n) ==
  LET cs == Commas(s) IN
  CHOOSE i \in cs : Cardinality({j \in cs : j <= i}) = n
Field(s, n) ==
  LET a == IF n = 0 THEN 0 ELSE CommaPos(s, n)
      b == IF n = Cardinality(Commas(s)) THEN Len(s) + 1
           ELSE CommaPos(s, n + 1)
  IN SubSeq(s, a + 1, b - 1)
NumFields(s) == Cardinality(Commas(s)) + 1

\* s is body '*' h1 h2
Complete(s) == ~NoStar(s) /\ Len(s) = Len(Body(s)) + 3

\* the two characters after the '*' are hexadecimal digits whose value is
\* the exclusive or of the body
ChecksumMatches(s) ==
  LET h1 == s[Len(Body(s)) + 2]
      h2 == s[Len(Body(s)) + 3]
  IN /\ IsHexDigit(h1) /\ IsHexDigit(h2)
     /\ 16 * HexDigitVal(h1) + HexDigitVal(h2) = XorAll(Body(s))

\* ... are hexadecimal digits with another value
ChecksumDiffers(s) ==
  LET h1 == s[Len(Body(s)) + 2]
      h2 == s[Len(Body(s)) + 3]
  IN /\ IsHexDigit(h1) /\ IsHexDigit(h2)
     /\ 16 * HexDigitVal(h1) + HexDigitVal(h2) # XorAll(Body(s))

\* the call just made was update with the last character the source sent
JustSent == op = "update" /\ sent # <<>> /\ new_char = sent[Len(sent)]

ExampleSentence ==
  <<"G", "P", "R", "M", "C", ",", "1", "2", "3", "5", "1", "9", ",", "A",
    ",", "4", "8", "0", "7", ".", "0", "3", "8", ",", "N", ",", "0", "1",
    "1", "3", "1", ".", "0", "0", "0", ",", "E", ",", "0", "2", "2", ".",
    "4", ",", "0", "8", "4", ".", "4", ",", "2", "3", "0", "3", "9", "4",
    ",", "0", "0", "3", ".", "1", ",", "W", "*", "6", "A">>

(***************************************************************************)
(* Claims.                                                                 *)
(***************************************************************************)

\* C1: update returns a sentence-type indicator (not None) from exactly the
\* call in which the decoder of a complete, checksum-valid, recognised
\* sentence succeeded, and None from every other call.
C1_ReturnsTypeExactlyOnDecode ==
  (ret # "None") <=> (op = "update" /\ decoder_ret = "True")

\* C2: no exception escapes update, whatever the character and the state.
C2_NoExceptionEscapes == raised = "none"

\* C3: in every state update('$') returns None and leaves gps_segments =
\* [''], active_segment = 0, crc_xor = 0, process_crc true, char_count = 0
\* and sentence_active true.
C3_StartMarkerResets ==
  (op = "update" /\ new_char = "$") =>
    /\ raised = "none" /\ ret = "None"
    /\ attrs_set
    /\ gps_segments = <<<<>>>>
    /\ active_segment = 0
    /\ crc_xor = 0
    /\ process_crc
    /\ char_count = 0
    /\ sentence_active

\* C3, for a parser whose new_sentence() has run once: update('$') resets
\* the per-sentence state.
C3_StartMarkerResetsOnceSet ==
  (attrs_set /\ op = "update" /\ new_char = "$") =>
    /\ raised = "none" /\ ret = "None"
    /\ gps_segments = <<<<>>>>
    /\ active_segment = 0
    /\ crc_xor = 0
    /\ process_crc
    /\ char_count = 0
    /\ sentence_active

\* C4: update with a character whose ordinal is below 10 or above 126
\* changes no parser state (framing, checksum, char_count, counters, fix
\* data), raises nothing and returns None.
C4_OutOfRangeIgnored ==
  [][(op' = "update" /\ new_char' \in NoiseChars) =>
       /\ UNCHANGED <<frameVars, statVars, fixVars, local_offset>>
       /\ ret' = "None" /\ raised' = "none" /\ dispatched' = "none"]_vars

\* an out-of-range character has just been fed in the middle of a field of
\* an active sentence
C4_Witness ==
  /\ op = "update" /\ new_char \in NoiseChars
  /\ attrs_set /\ sentence_active
  /\ active_segment > 0
  /\ gps_segments[active_segment + 1] # <<>>

\* C5: the call that consumes the second checksum digit of a sentence '$'
\* body '*' h1 h2 within SENTENCE_LIMIT accepts it (clean_sentences + 1) if
\* and only if h1 h2 is the hexadecimal exclusive or of the body.
C5_AcceptedIffChecksum ==
  [][(JustSent' /\ sent' # sent /\ Complete(sent')
        /\ Len(sent') <= SENTENCE_LIMIT) =>
       /\ (clean_sentences' = clean_sentences + 1) <=> ChecksumMatches(sent')
       /\ (clean_sentences' = clean_sentences) <=> ~ChecksumMatches(sent')]_vars

\* C5, for a parser whose new_sentence() has run once.
C5_AcceptedIffChecksumOnceSet ==
  [][(attrs_set' /\ JustSent' /\ sent' # sent /\ Complete(sent')
        /\ Len(sent') <= SENTENCE_LIMIT) =>
       /\ (clean_sentences' = clean_sentences + 1) <=> ChecksumMatches(sent')
       /\ (clean_sentences' = clean_sentences) <=> ~ChecksumMatches(sent')]_vars

\* C6: once the two characters after '*' were hexadecimal digits with a
\* value other than the checksum, no later character before the next '$'
\* increases clean_sentences, runs a decoder or changes the fix data.
C6_MismatchDiscards ==
  [][(~NoStar(sent) /\ Len(sent) >= Len(Body(sent)) + 3
        /\ ChecksumDiffers(sent)
        /\ op' = "update" /\ new_char' # "$") =>
       /\ clean_sentences' = clean_sentences
       /\ dispatched' = "none"
       /\ UNCHANGED fixVars]_vars

\* C7: once more than SENTENCE_LIMIT characters followed the sentence start
\* with no '*' among them, sentence_active is false; no decoder runs in a
\* sentence without '*'; and from then on every character other than '$'
\* leaves the counters, the fix data and sentence_active as they are.
C7_LengthCeilingAborts ==
  [][/\ (NoStar(sent') /\ Len(sent') > SENTENCE_LIMIT) => ~sentence_active'
     /\ NoStar(sent') => dispatched' = "none"
     /\ (NoStar(sent) /\ Len(sent) > SENTENCE_LIMIT
           /\ op' = "update" /\ new_char' # "$") =>
          /\ UNCHANGED <<statVars, fixVars, sentence_active>>
          /\ dispatched' = "none"]_vars

\* a sentence of a live parser was aborted at the ceiling and a later
\* character has been ignored
C7_Witness ==
  /\ attrs_set /\ ~sentence_active
  /\ NoStar(sent) /\ Len(sent) = SENTENCE_LIMIT + 2
  /\ char_count = SENTENCE_LIMIT + 2
  /\ Len(gps_segments) = 1 /\ Len(gps_segments[1]) = SENTENCE_LIMIT + 1
  /\ JustSent /\ clean_sentences = 0

\* C8: while a sentence is active, char_count is at most SENTENCE_LIMIT + 1
\* and gps_segments has at most SENTENCE_LIMIT + 2 entries.
C8_BufferBounded ==
  (attrs_set /\ sentence_active) =>
    /\ char_count <= SENTENCE_LIMIT + 1
    /\ Len(gps_segments) <= SENTENCE_LIMIT + 2

\* C9: an RMC decode that fails leaves timestamp, date, latitude,
\* longitude, speed, course, valid and fix_stat as they were.
C9_FailedRmcChangesNothing ==
  [][(dispatched' = "gprmc" /\ decoder_ret' = "False") =>
       UNCHANGED <<timestamp, date, latitude, longitude, speed, course,
                   valid, fix_stat>>]_vars

\* the fields of a complete sentence are those of an RMC sentence with a
\* fix and well-formed fields
WellFormedRmc(s) ==
  LET b == Body(s) IN
  /\ Complete(s) /\ ChecksumMatches(s)
  /\ NumFields(b) >= 10
  /\ Field(b, 0) \in {<<"G", "P", "R", "M", "C">>, <<"G", "N", "R", "M", "C">>}
  /\ Field(b, 2) = <<"A">>
  /\ Len(Field(b, 1)) >= 6 /\ AllDigits(SubSeq(Field(b, 1), 1, 6))
  /\ PyFloat(SliceFrom(Field(b, 1), 4)).ok
  /\ Len(Field(b, 9)) = 6 /\ AllDigits(Field(b, 9))
  /\ Len(Field(b, 3)) >= 4 /\ AllDigits(SubSeq(Field(b, 3), 1, 4))
  /\ PyFloat(SliceFrom(Field(b, 3), 2)).ok
  /\ Field(b, 4) \in {<<"N">>, <<"S">>}
  /\ Len(Field(b, 5)) >= 5 /\ AllDigits(SubSeq(Field(b, 5), 1, 5))
  /\ PyFloat(SliceFrom(Field(b, 5), 3)).ok
  /\ Field(b, 6) \in {<<"E">>, <<"W">>}
  /\ PyFloat(Field(b, 7)).ok
  /\ Field(b, 8) = <<>> \/ PyFloat(Field(b, 8)).ok

\* what C10 says the fix data are after the sentence s
RmcDecoded(s) ==
  LET b == Body(s) IN
  /\ latitude = <<DigitsVal(SubSeq(Field(b, 3), 1, 2)),
                  PyFloat(SliceFrom(Field(b, 3), 2)).val, Field(b, 4)>>
  /\ longitude = <<DigitsVal(SubSeq(Field(b, 5), 1, 3)),
                   PyFloat(SliceFrom(Field(b, 5), 3)).val, Field(b, 6)>>
  /\ speed[1] = PyFloat(Field(b, 7)).val
  /\ course = (IF Field(b, 8) = <<>> THEN <<0, 0>>
               ELSE PyFloat(Field(b, 8)).val)
  /\ timestamp[1] = (DigitsVal(SubSeq(Field(b, 1), 1, 2)) + local_offset) % 24
  /\ valid = TRUE
  /\ s = ExampleSentence =>
       /\ latitude = <<48, <<7038, 3>>, <<"N">>>>
       /\ longitude = <<11, <<31, 0>>, <<"E">>>>
       /\ speed[1] = <<224, 1>>
       /\ course = <<844, 1>>

\* C10: after a checksum-valid GPRMC/GNRMC sentence with field 2 = 'A' and
\* well-formed fields has been fed completely, latitude, longitude,
\* speed[0], course, the timestamp hour and valid are those of its fields.
C10_RmcFixDecoded == WellFormedRmc(sent) => RmcDecoded(sent)

\* C10, for a parser whose new_sentence() has run once.
C10_RmcFixDecodedOnceSet ==
  (attrs_set /\ WellFormedRmc(sent)) => RmcDecoded(sent)

\* the example sentence has been decoded by a live parser
C10_ExampleDecoded ==
  /\ attrs_set /\ sent = ExampleSentence /\ JustSent
  /\ dispatched = "gprmc" /\ decoder_ret = "True"
  /\ latitude[1] = 48 /\ longitude[1] = 11 /\ valid

RmcTypes == {<<"G", "P", "R", "M", "C">>, <<"G", "N", "R", "M", "C">>}
GgaTypes == {<<"G", "P", "G", "G", "A">>, <<"G", "N", "G", "G", "A">>}

\* the call just made consumed the last character of the complete sentence
\* the source sent
Completes == JustSent' /\ sent' # sent /\ Complete(sent')

\* a time field that is empty or hhmmss[.sss]
TimeParses(f) ==
  \/ f = <<>>
  \/ /\ PyInt(Slice(f, 0, 2)).ok /\ PyInt(Slice(f, 2, 4)).ok
     /\ PyFloat(SliceFrom(f, 4)).ok

\* the timestamp a time field stands for
TimeOf(f) ==
  IF f = <<>> THEN <<0, 0, <<0, 0>>>>
  ELSE <<(PyInt(Slice(f, 0, 2)).val + local_offset) % 24,
         PyInt(Slice(f, 2, 4)).val, PyFloat(SliceFrom(f, 4)).val>>

\* s is a checksum-valid GGA sentence with fix status 0 and a parsable time
\* and satellite count
GgaNoFix(s) ==
  LET b == Body(s) IN
  /\ Complete(s) /\ ChecksumMatches(s)
  /\ NumFields(b) >= 8
  /\ Field(b, 0) \in GgaTypes
  /\ Field(b, 6) = <<"0">>
  /\ PyInt(Field(b, 7)).ok
  /\ TimeParses(Field(b, 1))

\* what C11 says the call that completes the no-fix GGA sentence s does
GgaNoFixEffect(s) ==
  LET b == Body(s) IN
  /\ satellites_in_use' = PyInt(Field(b, 7)).val
  /\ hdop' = (IF NumFields(b) >= 9 /\ PyFloat(Field(b, 8)).ok
              THEN PyFloat(Field(b, 8)).val ELSE <<0, 0>>)
  /\ timestamp' = TimeOf(Field(b, 1))
  /\ fix_stat' = 0
  /\ UNCHANGED <<latitude, longitude, altitude, geoid_height>>

\* C11: the call that completes a checksum-valid GGA sentence with fix
\* status 0 and a parsable satellite count sets satellites_in_use, hdop,
\* timestamp and fix_stat from the sentence and leaves latitude, longitude,
\* altitude and geoid_height as they were.
C11_GgaNoFixUpdates ==
  [][(Completes /\ GgaNoFix(sent')) => GgaNoFixEffect(sent')]_vars

\* C11, for a parser whose new_sentence() has run once.
C11_GgaNoFixUpdatesOnceSet ==
  [][(attrs_set' /\ Completes /\ GgaNoFix(sent')) =>
       GgaNoFixEffect(sent')]_vars

\* a no-fix GGA sentence has been decoded after an RMC sentence set the
\* position
C11_NoFixAfterPosition ==
  /\ attrs_set /\ JustSent /\ GgaNoFix(sent)
  /\ dispatched = "gpgga" /\ decoder_ret = "True"
  /\ latitude[1] = 48 /\ satellites_in_use = 8 /\ fix_stat = 0

\* C12: decoding an RMC sentence, with or without a fix, leaves fix_stat as
\* it was; decoding a GGA sentence leaves valid as it was and leaves in
\* fix_stat the integer of its fix-status field, so fix_stat is always the
\* code of the most recently decoded GGA sentence.
C12_SignalsIndependent ==
  [][/\ dispatched' = "gprmc" => UNCHANGED fix_stat
     /\ dispatched' = "gpgga" => UNCHANGED valid
     /\ (dispatched' = "gpgga" /\ decoder_ret' = "True") =>
          fix_stat' = PyInt(Field(Body(sent'), 6)).val]_vars

\* C12, the GGA half alone: a GGA decode never changes valid and leaves the
\* code of its fix-status field in fix_stat.
C12_GgaKeepsValid ==
  [][/\ dispatched' = "gpgga" => UNCHANGED valid
     /\ (dispatched' = "gpgga" /\ decoder_ret' = "True") =>
          fix_stat' = PyInt(Field(Body(sent'), 6)).val]_vars

\* s is a checksum-valid sentence within SENTENCE_LIMIT whose field 0 is
\* none of GPRMC, GNRMC, GPGGA and GNGGA
Unrecognised(s) ==
  /\ Complete(s) /\ ChecksumMatches(s)
  /\ Len(s) <= SENTENCE_LIMIT
  /\ Field(Body(s), 0) \notin RmcTypes \cup GgaTypes

\* C13: the call that completes a checksum-valid sentence of an unrecognised
\* type adds one to clean_sentences, clears sentence_active and changes no
\* fix-data field.
C13_UnrecognisedCounted ==
  [][(Completes /\ Unrecognised(sent')) =>
       /\ clean_sentences' = clean_sentences + 1
       /\ ~sentence_active'
       /\ UNCHANGED fixVars]_vars

\* C13, for a parser whose new_sentence() has run once.
C13_UnrecognisedCountedOnceSet ==
  [][(attrs_set' /\ Completes /\ Unrecognised(sent')) =>
       /\ clean_sentences' = clean_sentences + 1
       /\ ~sentence_active'
       /\ dispatched' = "none"
       /\ UNCHANGED fixVars]_vars

\* a lower-case 'gprmc' sentence has been counted by a live parser
C13_LowerCaseCounted ==
  /\ attrs_set /\ JustSent /\ Unrecognised(sent)
  /\ Field(Body(sent), 0) = <<"g", "p", "r", "m", "c">>
  /\ clean_sentences = 1 /\ ~sentence_active /\ dispatched = "none"

\* a date field that is empty or ddmmyy
DateParses(f) ==
  \/ f = <<>>
  \/ /\ PyInt(Slice(f, 0, 2)).ok /\ PyInt(Slice(f, 2, 4)).ok
     /\ PyInt(Slice(f, 4, 6)).ok

\* a latitude (n = 2) or longitude (n = 3) field whose degrees and minutes
\* parse
AngleParses(f, n) == PyInt(Slice(f, 0, n)).ok /\ PyFloat(SliceFrom(f, n)).ok

\* an RMC body with a field that should be a number and is not
RmcBadNumber(b) ==
  /\ NumFields(b) >= 10
  /\ Field(b, 0) \in RmcTypes
  /\ \/ ~TimeParses(Field(b, 1))
     \/ ~DateParses(Field(b, 9))
     \/ /\ Field(b, 2) = <<"A">>
        /\ \/ ~AngleParses(Field(b, 3), 2)
           \/ ~AngleParses(Field(b, 5), 3)
           \/ ~PyFloat(Field(b, 7)).ok
           \/ Field(b, 8) # <<>> /\ ~PyFloat(Field(b, 8)).ok

\* a GGA body with a field that should be a number and is not, among those
\* whose parse failure ends the decode
GgaBadNumber(b) ==
  /\ NumFields(b) >= 8
  /\ Field(b, 0) \in GgaTypes
  /\ \/ ~TimeParses(Field(b, 1))
     \/ ~PyInt(Field(b, 7)).ok
     \/ ~PyInt(Field(b, 6)).ok
     \/ /\ PyInt(Field(b, 6)).val # 0
        /\ \/ ~AngleParses(Field(b, 2), 2)
           \/ ~AngleParses(Field(b, 4), 3)

\* C14: the call that completes a checksum-valid RMC or GGA sentence with a
\* non-numeric value where a number is expected does not decode it and does
\* not add to clean_sentences.
C14_BadNumberNotCounted ==
  [][(Completes /\ ChecksumMatches(sent')
        /\ (RmcBadNumber(Body(sent')) \/ GgaBadNumber(Body(sent')))) =>
       /\ decoder_ret' # "True"
       /\ clean_sentences' = clean_sentences]_vars

\* C14, the half that holds: the decoder does not succeed on such a
\* sentence.
C14_BadNumberAborts ==
  [][(Completes /\ ChecksumMatches(sent')
        /\ (RmcBadNumber(Body(sent')) \/ GgaBadNumber(Body(sent')))) =>
       decoder_ret' # "True"]_vars

\* the fields of a complete sentence are those of a GGA sentence with a
\* nonzero fix status and well-formed fields
WellFormedGgaFix(s) ==
  LET b == Body(s) IN
  /\ Complete(s) /\ ChecksumMatches(s)
  /\ NumFields(b) >= 12
  /\ Field(b, 0) \in GgaTypes
  /\ TimeParses(Field(b, 1))
  /\ AngleParses(Field(b, 2), 2) /\ Field(b, 3) \in {<<"N">>, <<"S">>}
  /\ AngleParses(Field(b, 4), 3) /\ Field(b, 5) \in {<<"E">>, <<"W">>}
  /\ PyInt(Field(b, 6)).ok /\ PyInt(Field(b, 6)).val # 0
  /\ PyInt(Field(b, 7)).ok

\* a complete checksum-valid RMC or GGA sentence that reports a fix
FixSentence(s) == WellFormedRmc(s) \/ WellFormedGgaFix(s)

\* C15: by the time the stream has delivered its last complete checksum-valid
\* RMC/GGA sentence reporting a fix, the main loop has seen a truthy return
\* of gps.update and built a position report from the parser's fields, which
\* it holds in gps_data or has handed to send_data.
C15_FixReported ==
  (sentences = MaxSentences /\ JustSent /\ FixSentence(sent)) =>
    (gps_data.type = "gps" \/ sent_data.type = "gps")

\* C15, what the main loop does instead: it never builds a report and never
\* calls send_data, whatever the stream and whether or not new_sentence()
\* has run.
C15_NeverReported == ret = "None" /\ gps_data = NoData /\ sent_data = NoData

\* C16: an update call changes a fix-data field only if it consumes the
\* second checksum digit of a checksum-valid sentence whose field 0 is
\* GPRMC, GNRMC, GPGGA or GNGGA.
C16_FixChangesOnlyOnDecode ==
  [][(op' = "update" /\ fixVars' # fixVars) =>
       /\ Completes /\ ChecksumMatches(sent')
       /\ Field(Body(sent'), 0) \in RmcTypes \cup GgaTypes]_vars

\* C16, as far as it holds: an update call changes a fix-data field only if
\* it is the call that counts a sentence as clean and dispatches gprmc or
\* gpgga; new_sentence() changes none.
C16_FixChangesOnlyOnDispatch ==
  [][(fixVars' # fixVars) =>
       /\ op' = "update"
       /\ dispatched' \in {"gprmc", "gpgga"}
       /\ clean_sentences' = clean_sentences + 1
       /\ gps_segments[1] \in RmcTypes \cup GgaTypes]_vars

\* C17: while a sentence is active and no '*' was seen, crc_xor is the
\* exclusive or of the ordinals of the in-range characters consumed since
\* the sentence start, commas included; the '*' is not added to it, and
\* from the '*' to the next '$' crc_xor does not change.
C17_CrcAccumulates ==
  [][/\ (attrs_set' /\ sentence_active' /\ NoStar(sent')) =>
          crc_xor' = XorAll(sent')
     /\ (op' = "update" /\ new_char' = "*") => crc_xor' = crc_xor
     /\ (~NoStar(sent) /\ op' = "update" /\ new_char' # "$") =>
          crc_xor' = crc_xor]_vars

\* the first checksum digit of a sentence with several fields has been
\* consumed and crc_xor is still the exclusive or of the body
C17_Witness ==
  /\ attrs_set /\ sentence_active /\ ~process_crc /\ JustSent
  /\ ~NoStar(sent) /\ Len(sent) = Len(Body(sent)) + 2
  /\ NumFields(Body(sent)) >= 10
  /\ crc_xor = XorAll(Body(sent)) /\ crc_xor # 0
  /\ crc_xor # XorAll(sent)

\* the two characters after the '*' of s are not a hexadecimal number
NonHexChecksum(s) ==
  /\ ~NoStar(s) /\ Len(s) >= Len(Body(s)) + 3
  /\ ~PyIntHex(SubSeq(s, Len(Body(s)) + 2, Len(Body(s)) + 3)).ok

\* C18: once the two characters after '*' were not hexadecimal, neither
\* clean_sentences nor crc_fails changes and no decoder runs, at that
\* character and at every later one before the next '$'; the sentence stays
\* active until the length ceiling ends it.
C18_DeformedNeverValid ==
  [][/\ (NonHexChecksum(sent') /\ op' = "update" /\ new_char' # "$") =>
          /\ UNCHANGED statVars
          /\ dispatched' = "none"
     /\ (NonHexChecksum(sent') /\ attrs_set' /\ JustSent'
           /\ Len(sent') <= SENTENCE_LIMIT) => sentence_active']_vars

\* C18, at the second character after the '*' alone.
C18_DeformedIgnoredAtOnce ==
  [][(NonHexChecksum(sent') /\ Len(sent') = Len(Body(sent')) + 3
        /\ sent' # sent /\ JustSent') =>
       /\ UNCHANGED <<statVars, fixVars>>
       /\ dispatched' = "none"
       /\ attrs_set' /\ Len(sent') <= SENTENCE_LIMIT => sentence_active']_vars

\* the date a date field stands for
DateOf(f) ==
  IF f = <<>> THEN <<0, 0, 0>>
  ELSE <<PyInt(Slice(f, 0, 2)).val, PyInt(Slice(f, 2, 4)).val,
         PyInt(Slice(f, 4, 6)).val>>

\* s is a checksum-valid RMC sentence whose field 2 is not 'A' and whose time
\* and date parse
RmcNoFix(s) ==
  LET b == Body(s) IN
  /\ Complete(s) /\ ChecksumMatches(s)
  /\ NumFields(b) >= 10
  /\ Field(b, 0) \in RmcTypes
  /\ Field(b, 2) # <<"A">>
  /\ TimeParses(Field(b, 1)) /\ DateParses(Field(b, 9))

\* what C19 says the call that completes the RMC sentence s does
RmcNoFixEffect(s) ==
  LET b == Body(s) IN
  /\ latitude' = <<0, <<0, 0>>, <<"N">>>>
  /\ longitude' = <<0, <<0, 0>>, <<"W">>>>
  /\ speed' = <<<<0, 0>>, <<0, 0>>, <<0, 0>>>>
  /\ course' = <<0, 0>>
  /\ valid' = FALSE
  /\ timestamp' = TimeOf(Field(b, 1))
  /\ date' = DateOf(Field(b, 9))

\* C19: the call that completes a checksum-valid RMC sentence whose field 2
\* is not 'A' and whose time and date parse resets latitude, longitude,
\* speed and course, sets valid to false and records the sentence's
\* timestamp and date.
C19_RmcNoFixResets ==
  [][(Completes /\ RmcNoFix(sent')) => RmcNoFixEffect(sent')]_vars

\* C19, for a parser whose new_sentence() has run once.
C19_RmcNoFixResetsOnceSet ==
  [][(attrs_set' /\ Completes /\ RmcNoFix(sent')) =>
       RmcNoFixEffect(sent')]_vars

\* an RMC sentence with status 'V' has cleared the position an earlier
\* sentence set
C19_PositionCleared ==
  /\ attrs_set /\ JustSent /\ RmcNoFix(sent)
  /\ sentences = 2 /\ clean_sentences = 2
  /\ latitude[1] = 0 /\ ~valid /\ timestamp[2] = 35 /\ date[1] = 23

\* the letters a hemisphere field may hold
HemisphereLetters == {<<"N">>, <<"S">>, <<"E">>, <<"W">>}

\* the position, speed and course fields of an RMC body are well-formed
RmcPositionOk(b) ==
  /\ AngleParses(Field(b, 3), 2) /\ Field(b, 4) \in HemisphereLetters
  /\ AngleParses(Field(b, 5), 3) /\ Field(b, 6) \in HemisphereLetters
  /\ PyFloat(Field(b, 7)).ok
  /\ Field(b, 8) = <<>> \/ PyFloat(Field(b, 8)).ok

\* latitude, longitude, speed, course and valid are all those of the body b
RmcFiveAssigned(b) ==
  LET v == PyFloat(Field(b, 7)).val IN
  /\ latitude' = <<PyInt(Slice(Field(b, 3), 0, 2)).val,
                   PyFloat(SliceFrom(Field(b, 3), 2)).val, Field(b, 4)>>
  /\ longitude' = <<PyInt(Slice(Field(b, 5), 0, 3)).val,
                    PyFloat(SliceFrom(Field(b, 5), 3)).val, Field(b, 6)>>
  /\ speed' = <<v, DecMul(v, <<1151, 3>>), DecMul(v, <<1852, 3>>)>>
  /\ course' = (IF Field(b, 8) = <<>> THEN <<0, 0>>
                ELSE PyFloat(Field(b, 8)).val)
  /\ valid' = TRUE

\* C20: an RMC decode on the valid-fix path either assigns latitude,
\* longitude, speed, course and valid all from the sentence or changes none
\* of them; with a failure in a latitude, longitude, hemisphere, speed or
\* course field it changes none.
C20_RmcAllOrNone ==
  [][(dispatched' = "gprmc" /\ NumFields(Body(sent')) >= 10
        /\ Field(Body(sent'), 2) = <<"A">>) =>
       /\ \/ UNCHANGED <<latitude, longitude, speed, course, valid>>
          \/ RmcFiveAssigned(Body(sent'))
       /\ ~RmcPositionOk(Body(sent')) =>
            UNCHANGED <<latitude, longitude, speed, course, valid>>]_vars

\* an RMC sentence with a bad speed field has left the position, speed,
\* course and valid of the sentence before it
C20_Witness ==
  /\ attrs_set /\ JustSent /\ dispatched = "gprmc" /\ decoder_ret = "False"
  /\ NumFields(Body(sent)) >= 10
  /\ Field(Body(sent), 2) = <<"A">>
  /\ Field(Body(sent), 3) = <<"4", "8", "0", "7", ".", "5">>
  /\ Field(Body(sent), 7) = <<"X">>
  /\ latitude = <<48, <<7038, 3>>, <<"N">>>>
  /\ speed[1] = <<224, 1>> /\ valid

\* a GGA body with a field on which the decode aborts: the time, the
\* satellite count or the fix status is not a number or, the fix status
\* being nonzero, a latitude or longitude is not a number or a hemisphere
\* is not one of the accepted letters
GgaAborts(b) ==
  /\ NumFields(b) >= 8
  /\ Field(b, 0) \in GgaTypes
  /\ \/ GgaBadNumber(b)
     \/ /\ PyInt(Field(b, 6)).ok /\ PyInt(Field(b, 6)).val # 0
        /\ \/ Field(b, 3) \notin HemisphereLetters
           \/ Field(b, 5) \notin HemisphereLetters

\* C21: a GGA decode that aborts leaves every fix-data field unchanged,
\* timestamp, satellites_in_use, hdop and fix_stat included.
C21_GgaAbortChangesNothing ==
  [][(dispatched' = "gpgga" /\ GgaAborts(Body(sent'))) =>
       /\ decoder_ret' = "False"
       /\ UNCHANGED fixVars]_vars

\* a GGA sentence with a malformed latitude has left the fix data of the
\* GGA sentence before it
C21_Witness ==
  /\ attrs_set /\ JustSent /\ dispatched = "gpgga" /\ decoder_ret = "False"
  /\ GgaAborts(Body(sent))
  /\ Field(Body(sent), 2) = <<"3", "7", "X", "3">>
  /\ Field(Body(sent), 7) = <<"0", "8">>
  /\ clean_sentences = 2
  /\ satellites_in_use = 8 /\ fix_stat = 2 /\ latitude[1] = 37
  /\ hdop = <<9, 1>> /\ timestamp[2] = 2

\* a GGA body with a nonzero fix status and well-formed time, satellite
\* count, latitude and longitude
GgaFixPositionOk(b) ==
  /\ NumFields(b) >= 8
  /\ Field(b, 0) \in GgaTypes
  /\ TimeParses(Field(b, 1))
  /\ AngleParses(Field(b, 2), 2) /\ Field(b, 3) \in HemisphereLetters
  /\ AngleParses(Field(b, 4), 3) /\ Field(b, 5) \in HemisphereLetters
  /\ PyInt(Field(b, 6)).ok /\ PyInt(Field(b, 6)).val # 0
  /\ PyInt(Field(b, 7)).ok

\* field n of the body b is there and is a number
NumberAt(b, n) == NumFields(b) > n /\ PyFloat(Field(b, n)).ok

\* what C22 says a decode of the GGA body b does
GgaFixEffect(b) ==
  /\ raised' = "none" /\ decoder_ret' = "True"
  /\ latitude' = <<PyInt(Slice(Field(b, 2), 0, 2)).val,
                   PyFloat(SliceFrom(Field(b, 2), 2)).val, Field(b, 3)>>
  /\ longitude' = <<PyInt(Slice(Field(b, 4), 0, 3)).val,
                    PyFloat(SliceFrom(Field(b, 4), 3)).val, Field(b, 5)>>
  /\ timestamp' = TimeOf(Field(b, 1))
  /\ satellites_in_use' = PyInt(Field(b, 7)).val
  /\ fix_stat' = PyInt(Field(b, 6)).val
  /\ hdop' = (IF NumberAt(b, 8) THEN PyFloat(Field(b, 8)).val ELSE <<0, 0>>)
  /\ IF NumberAt(b, 9) /\ NumberAt(b, 11)
     THEN /\ altitude' = PyFloat(Field(b, 9)).val
          /\ geoid_height' = PyFloat(Field(b, 11)).val
     ELSE /\ altitude' = <<0, 0>>
          /\ geoid_height' = <<0, 0>>

\* C22: a GGA decode with a nonzero fix status and well-formed latitude and
\* longitude completes whether or not HDOP, altitude and geoid height are
\* there as numbers: it writes latitude, longitude, timestamp,
\* satellites_in_use and fix_stat, HDOP or 0.0 in its place, and altitude
\* and geoid height or 0 for both.
C22_OptionalFieldsNonFatal ==
  [][(dispatched' = "gpgga" /\ GgaFixPositionOk(Body(sent'))) =>
       GgaFixEffect(Body(sent'))]_vars

\* C22, for sentences that have all their fields up to the geoid height:
\* a field that is not a number is replaced as C22 says.
C22_NonNumericNonFatal ==
  [][(dispatched' = "gpgga" /\ GgaFixPositionOk(Body(sent'))
        /\ NumFields(Body(sent')) >= 12) =>
       GgaFixEffect(Body(sent'))]_vars

\* a GGA sentence with a non-numeric geoid height has been decoded, with 0
\* for altitude and geoid height
C22_BothDefaulted ==
  /\ attrs_set /\ JustSent /\ dispatched = "gpgga" /\ decoder_ret = "True"
  /\ NumFields(Body(sent)) >= 12
  /\ Field(Body(sent), 9) = <<"5", "4", ".", "5">>
  /\ Field(Body(sent), 11) = <<"X">>
  /\ altitude = <<0, 0>> /\ geoid_height = <<0, 0>> /\ latitude[1] = 37

\* C23: in every state the latitude hemisphere is 'N' or 'S' and the
\* longitude hemisphere is 'E' or 'W'.
C23_HemisphereTyped ==
  /\ latitude[3] \in {<<"N">>, <<"S">>}
  /\ longitude[3] \in {<<"E">>, <<"W">>}

\* C23, as far as it holds: both hemispheres are among the four letters.
C23_HemisphereIsLetter ==
  /\ latitude[3] \in HemisphereLetters
  /\ longitude[3] \in HemisphereLetters

\* the hour stored for every two-character hour field that is an integer
\* (-9 to 99) and every local offset up to MaxOffset either way is in 0..23
\* and differs from their sum by a multiple of 24
HourArithmetic ==
  \A off \in (-MaxOffset)..MaxOffset : \A hh \in (-9)..99 :
    /\ LocalHours(hh, off) \in 0..23
    /\ (LocalHours(hh, off) - (hh + off)) % 24 = 0

\* C24: in every state the hours of timestamp are in 0..23; the hour a
\* decode stores is (HH + local_offset) mod 24, not negative, for every
\* integer local_offset and every hour field that is an integer.
C24_HoursInRange ==
  /\ timestamp[1] \in 0..23
  /\ HourArithmetic
  /\ (JustSent /\ decoder_ret = "True" /\ Complete(sent)
        /\ NumFields(Body(sent)) >= 2
        /\ Field(Body(sent), 1) # <<>>) =>
       (timestamp[1] - PyInt(Slice(Field(Body(sent), 1), 0, 2)).val
          - local_offset) % 24 = 0

\* with local_offset = -13 the hour field 12 has been stored as 23
C24_Witness ==
  /\ attrs_set /\ JustSent /\ decoder_ret = "True" /\ Complete(sent)
  /\ NumFields(Body(sent)) >= 2
  /\ local_offset = -13
  /\ Slice(Field(Body(sent), 1), 0, 2) = <<"1", "2">>
  /\ timestamp = <<23, 35, <<19, 0>>>>

\* C25: no update call decreases clean_sentences or crc_fails, and one
\* update call increases at most one of the two, by exactly one.
C25_CountersMonotonic ==
  [][op' = "update" =>
       /\ clean_sentences' - clean_sentences \in {0, 1}
       /\ crc_fails' - crc_fails \in {0, 1}
       /\ ~(clean_sentences' # clean_sentences /\ crc_fails' # crc_fails)]_vars

\* both counters have been increased, by different update calls
C25_Witness ==
  /\ attrs_set /\ op = "update"
  /\ crc_fails >= 1 /\ clean_sentences >= 1

\* C26: each sentence gets at most one checksum verdict: the verdicts
\* counted so far (clean_sentences + crc_fails) never exceed the number of
\* sentences started.
C26_OneVerdictPerSentence ==
  clean_sentences + crc_fails <= sentences

\* send_data was called, and AT+CIPSEND was issued, in the last step
SendCalled == send_result # "none"
CipsendIssued == send_result \notin {"none", "not connected"}

\* C27: main calls send_data, and issues AT+CIPSEND, only in its loop, after
\* init_gsm returned True and connect_server then returned True; main leaves
\* the init_gsm loop only when init_gsm succeeded and the connect loop only
\* when connect_server succeeded after that, and the read/send loop starts
\* only then.
C27_StartupOrder ==
  [][/\ SendCalled' => (pc = "loop" /\ gsm_internet /\ server_connected)
     /\ CipsendIssued' => (pc = "loop" /\ gsm_internet /\ server_connected)
     /\ (pc = "init_gsm" /\ pc' # pc) =>
          (pc' = "connect_server" /\ gsm_internet' /\ ~server_connected')
     /\ (pc = "init_gsm" /\ pc' = pc) => ~gsm_internet'
     /\ (pc = "connect_server" /\ pc' # pc) =>
          (pc' = "loop" /\ gsm_internet /\ server_connected')
     /\ (pc = "connect_server" /\ pc' = pc) => ~server_connected'
     /\ pc' = "loop" => (gsm_internet' /\ server_connected')
     /\ (gps_data' # NoData \/ sent_data' # NoData) =>
          (gsm_internet' /\ server_connected')]_vars

\* after MaxTries failed init_gsm calls and MaxTries failed connect_server
\* calls the loop has started and a report has been sent
C27_Witness ==
  /\ pc = "loop" /\ send_result = "SEND OK" /\ sent_data # NoData
  /\ gsm_tries = MaxTries /\ server_tries = MaxTries

\* a send_data call that issued AT+CIPSEND and returned False
SendFailed == send_result \in {"no prompt", "no SEND OK"}

C28_NeverReconnects ==
  [][pc = "loop" => (pc' = "loop" /\ server_connected')]_vars

\* C29: a broadcast never ends by raising; one that has completed has sent
\* to every client that was in websocket_clients when it started, or seen
\* the send to it raise, and has removed exactly the clients whose send
\* raised.
C29_BroadcastCompletes ==
  [][\A b \in Broadcasts :
       /\ b_error'[b] = "none"
       /\ (b_pc[b] = "sending" /\ b_pc'[b] = "done") =>
            LET removed == websocket_clients \ websocket_clients' IN
            /\ b_start[b] \subseteq
                 (b_sent[b] \cup disconnected[b] \cup {b_cur[b]})
            /\ disconnected[b] \subseteq removed
            /\ removed \subseteq (disconnected[b] \cup {b_cur[b]})]_vars

\* C30: no set.remove of a client raises: neither a handler's cleanup nor a
\* broadcast's removal loop finds its client gone, and the client of a
\* handler that has exited is not in the set.
C30_RemovedExactlyOnce ==
  /\ \A c \in Clients :
       /\ handler[c] # "KeyError"
       /\ handler[c] = "done" => c \notin websocket_clients
  /\ \A b \in Broadcasts : b_error[b] # "KeyError"

\* a broadcast_to_websockets call was made in the step
BroadcastCalled ==
  \E b \in Broadcasts : b_pc[b] = "idle" /\ b_pc'[b] # "idle"

\* C31: last_known_position is None at the start; a broadcast of a dict of
\* type 'gps' makes it that dict, clients connected or not; a broadcast of
\* any other type and every other step leave it as it is; and a client that
\* connects while it is not None is given it as the first message to send.
C31_LastKnownPosition ==
  /\ []((\A b \in Broadcasts : b_pc[b] = "idle") =>
          last_known_position = None)
  /\ [][/\ (BroadcastCalled /\ called_with'.type = "gps") =>
             last_known_position' = called_with'
        /\ (BroadcastCalled /\ called_with'.type # "gps") =>
             last_known_position' = last_known_position
        /\ ~BroadcastCalled => last_known_position' = last_known_position
        /\ \A c \in Clients :
             (handler[c] = "idle" /\ handler'[c] = "running"
                /\ last_known_position # None) =>
               first_sent'[c] = [json |-> last_known_position]]_vars

\* two position reports were broadcast, then a message of another type with
\* no client connected, and the client that connected after that was given
\* the second report first
C31_Witness ==
  /\ \A b \in Broadcasts : b_pc[b] = "done"
  /\ called_with = [type |-> "status"]
  /\ last_known_position = [type |-> "gps", latitude |-> 37]
  /\ \E c \in Clients :
       /\ handler[c] = "running"
       /\ first_sent[c] = [json |-> [type |-> "gps", latitude |-> 37]]

\* the lines received that are not blank
NonBlank(lines) == SelectSeq(lines, LAMBDA k : k # "blank")

\* the replies written: everything but the welcome
Replies == SelectSeq(tcp_written, LAMBDA w : w # "welcome")

\* the reply the claim gives a line
ReplyTo(line) == IF line = "invalid" THEN "ERROR: Invalid JSON" ELSE "OK"

\* C32: while the tracker keeps its connection open the server keeps it
\* open, and once the server waits for more data every line received that
\* is not blank has its one reply, in order: 'OK' for a JSON value of any
\* type, 'ERROR: Invalid JSON' for a line that is not JSON.
C32_EveryLineAnswered ==
  /\ tcp_pc # "closed"
  /\ tcp_pc \in {"open", "eof"} =>
       LET lines == NonBlank(tcp_received) IN
       /\ Len(Replies) = Len(lines)
       /\ \A i \in 1..Len(lines) : Replies[i] = ReplyTo(lines[i])

\* C32, as far as it holds: a reply is never written for a line that was
\* not received, 'OK' answers only objects and the error only lines that
\* are not JSON, in the order of the lines.
C32_RepliesInOrder ==
  \E skip \in SUBSET (1..Len(tcp_received)) :
    LET kept == [i \in 1..Len(tcp_received) |-> i \notin skip]
        RECURSIVE Pick(_)
        Pick(i) == IF i > Len(tcp_received) THEN <<>>
                   ELSE IF kept[i] THEN <<tcp_received[i]>> \o Pick(i + 1)
                   ELSE Pick(i + 1)
        answered == Pick(1)
    IN /\ Len(answered) = Len(Replies)
       /\ \A i \in 1..Len(answered) :
            /\ answered[i] \in Objects \cup {"invalid"}
            /\ Replies[i] = ReplyTo(answered[i])

\* C33: a POST /gps that returns has sent gps_data and then pico_status to
\* every websocket that was in active_connections from its start to its
\* end, and no websocket_endpoint ends with the ValueError of a remove of a
\* websocket that is not in the list.
C33_BroadcastReachesAll ==
  [][/\ \A p \in Posts :
          (rg_pc[p] \in {"gps_data", "pico_status"} /\ rg_pc'[p] = "done") =>
            (rg_start[p] \cap Elements(active_connections')) \subseteq
              (rg_sent[p] \cup (IF rg_pc[p] = "pico_status"
                                 THEN {rg_connection[p]} ELSE {}))
     /\ \A c \in Connections : ws_endpoint'[c] # "ValueError"]_vars

\* C33, the removals alone: no websocket_endpoint ends with ValueError.
C33_RemovalNeverFails ==
  \A c \in Connections : ws_endpoint[c] # "ValueError"

\* C33, the broadcast alone: a POST /gps that returns has skipped no
\* websocket that stayed connected.
C33_NoneSkipped ==
  [][\A p \in Posts :
       (rg_pc[p] \in {"gps_data", "pico_status"} /\ rg_pc'[p] = "done") =>
         (rg_start[p] \cap Elements(active_connections')) \subseteq
           (rg_sent[p] \cup (IF rg_pc[p] = "pico_status"
                              THEN {rg_connection[p]} ELSE {}))]_vars

====
